---- MODULE Spec2Model ----
(***************************************************************************)
(* Search service of ritcher-map: cache-key derivation, the TTL cache,     *)
(* the search request flow, catalog indexing with cache invalidation and   *)
(* the HTTP search endpoints, as state machines over the Python source.    *)
(*                                                                         *)
(* Python strings are sequences of one-character strings, so that          *)
(* cleaning, joining and hashing act on characters as the code does.       *)
(* Python values (None, str, float, list, dict) are records [t, v].        *)
(***************************************************************************)
EXTENDS Integers, Sequences, FiniteSets, TLC

VARIABLES
    mode,       \* which harness drives the model ("keys", "ttl", "sys", "rec", ...)
    inp,        \* pure-function harnesses: the inputs drawn
    out,        \* pure-function harnesses: the outputs computed, or None
    hashSeed,   \* per-process salt of Python's str hash (PYTHONHASHSEED)
    redis,      \* the Redis keyspace: key -> [val, exp, wr]
    now,        \* the clock, in seconds
    advances,   \* how many times the clock was advanced
    cres,       \* CacheService harness: the last call and what it returned
    hist,       \* per key, the last value stored and when (history)
    es,         \* the search index: <<index, id>> -> document
    events,     \* the number of events in the search_analytics index
    srch,       \* the search request in progress
    idx,        \* the indexing call in progress
    sres,       \* how the last search request ended, until the next call (history)
    ires,       \* how the last indexing call ended, until the next call (history)
    calls,      \* how many requests and indexing calls were started
    catalog,    \* recommendations: the documents of the three indices, in index order
    clicks,     \* recommendations: per user, the ids clicked (search_analytics)
    model,      \* RecommendationService: the content model held in memory
    disk,       \* the model file content_model.pkl, or None
    procs,      \* per task, the recommendation or retrain call in progress
    rlast,      \* how the last recommendation request ended (history)
    tlast,      \* how the last training pass ended (history)
    passes      \* how many training passes were started

None == [t |-> "none", v |-> <<>>]
PyStr(s) == [t |-> "str", v |-> s]
PyFloat(n) == [t |-> "float", v |-> n]
PyList(l) == [t |-> "list", v |-> l]
PyDict(d) == [t |-> "dict", v |-> d]
PyInt(n) == [t |-> "int", v |-> n]
PyTuple(l) == [t |-> "tuple", v |-> l]
PyDatetime(n) == [t |-> "datetime", v |-> n]
\* an exception leaving a call
Raise == [t |-> "raise", v |-> <<>>]

(***************************************************************************)
(* Characters and strings                                                  *)
(***************************************************************************)
Digits == <<"0", "1", "2", "3", "4", "5", "6", "7", "8", "9">>
HexDigits == Digits \o <<"a", "b", "c", "d", "e", "f">>
UpperChars == {"A", "B", "N"}
LowerChars == {"a", "b", "c", "d", "e", "f", "g", "h", "i", "k", "l", "m", "n", "o",
               "p", "r", "s", "t", "u", "v", "w", "y"}
DigitChars == {Digits[i] : i \in 1..10}
PunctChars == {" ", ":", "-", "_", "[", "]", "(", ")", "{", "}", "'", ",", ".", "*"}
Chars == UpperChars \cup LowerChars \cup DigitChars \cup PunctChars

\* code points (ASCII), used for ordering and hashing
OrdOf(c) ==
    CASE c = " " -> 32 [] c = "'" -> 39 [] c = "(" -> 40 [] c = ")" -> 41
      [] c = "*" -> 42 [] c = "," -> 44 [] c = "-" -> 45 [] c = "." -> 46
      [] c = "0" -> 48 [] c = "1" -> 49 [] c = "2" -> 50 [] c = "3" -> 51
      [] c = "4" -> 52 [] c = "5" -> 53 [] c = "6" -> 54 [] c = "7" -> 55
      [] c = "8" -> 56 [] c = "9" -> 57 [] c = ":" -> 58
      [] c = "A" -> 65 [] c = "B" -> 66 [] c = "N" -> 78 [] c = "[" -> 91 [] c = "]" -> 93
      [] c = "_" -> 95
      [] c = "a" -> 97 [] c = "b" -> 98 [] c = "c" -> 99 [] c = "d" -> 100
      [] c = "e" -> 101 [] c = "f" -> 102 [] c = "g" -> 103 [] c = "h" -> 104
      [] c = "i" -> 105 [] c = "k" -> 107 [] c = "l" -> 108 [] c = "m" -> 109
      [] c = "n" -> 110 [] c = "o" -> 111 [] c = "p" -> 112 [] c = "r" -> 114
      [] c = "s" -> 115 [] c = "t" -> 116 [] c = "u" -> 117 [] c = "v" -> 118
      [] c = "w" -> 119 [] c = "y" -> 121 [] c = "{" -> 123 [] c = "}" -> 125

OrdTable == [c \in Chars |-> OrdOf(c)]
Ord(c) == OrdTable[c]

\* str.lower() on one character
Lower(c) == CASE c = "A" -> "a" [] c = "B" -> "b" [] c = "N" -> "n" [] OTHER -> c

\* str.isalnum() on one character
AlnumChars == UpperChars \cup LowerChars \cup DigitChars
IsAlnum(c) == c \in AlnumChars

\* s < t for Python strings (lexicographic by code point)
RECURSIVE StrLess(_, _)
StrLess(s, t) ==
    IF t = <<>> THEN FALSE
    ELSE IF s = <<>> THEN TRUE
    ELSE IF Head(s) = Head(t) THEN StrLess(Tail(s), Tail(t))
    ELSE Ord(Head(s)) < Ord(Head(t))

\* sep.join(parts)
RECURSIVE Join(_, _)
Join(sep, parts) ==
    IF parts = <<>> THEN <<>>
    ELSE IF Len(parts) = 1 THEN parts[1]
    ELSE parts[1] \o sep \o Join(sep, Tail(parts))

\* str(n) for an integer n
RECURSIVE NatStr(_)
NatStr(n) == IF n < 10 THEN <<Digits[n + 1]>> ELSE NatStr(n \div 10) \o <<Digits[(n % 10) + 1]>>

IntStr(n) == IF n < 0 THEN <<"-">> \o NatStr(0 - n) ELSE NatStr(n)

\* a polynomial hash of s[lo..hi] modulo a 16-bit prime, as the pair
\* <<hash, mult^length>>; the range is halved and the halves are combined, so
\* that long texts do not nest deeply. Two such hashes stand for one digest.
HashModulus == 46337
RECURSIVE PolyFold(_, _, _, _)
PolyFold(s, lo, hi, mult) ==
    IF lo > hi THEN <<0, 1>>
    ELSE IF lo = hi THEN <<Ord(s[lo]) % HashModulus, mult % HashModulus>>
    ELSE LET mid == (lo + hi) \div 2
             l == PolyFold(s, lo, mid, mult)
             r == PolyFold(s, mid + 1, hi, mult)
         IN  <<(l[1] * r[2] + r[1]) % HashModulus, (l[2] * r[2]) % HashModulus>>

PolyHash(s, mult, acc) ==
    LET f == PolyFold(s, 1, Len(s), mult)
    IN  ((acc % HashModulus) * f[2] + f[1]) % HashModulus

Hex4(n) ==
    << HexDigits[((n \div 4096) % 16) + 1], HexDigits[((n \div 256) % 16) + 1],
       HexDigits[((n \div 16) % 16) + 1], HexDigits[(n % 16) + 1] >>

\* hashlib.md5(s.encode()).hexdigest()[:8]: a fixed function of the text that
\* yields 8 hexadecimal characters (MD5 itself is abstracted by a 32-bit hash)
Md5Hex8(s) == Hex4(PolyHash(s, 31, 7)) \o Hex4(PolyHash(s, 131, 11))

\* hash(s) of a str: a signed integer that depends on the process's hash seed
PyHash(seed, s) ==
    LET h == PolyHash(s, 33, 5381 + seed) m == PolyHash(s, 37, seed)
    IN  IF h % 2 = 1 THEN 0 - (m * 4 + 2) ELSE m * 4 + (h % 4)

(***************************************************************************)
(* repr() / str() of Python values                                         *)
(***************************************************************************)
RECURSIVE Repr(_)
RECURSIVE ReprSeq(_)
RECURSIVE ReprItems(_)
\* the elements of a list, or the items of a tuple, separated by ", "
ReprSeq(l) ==
    IF l = <<>> THEN <<>>
    ELSE IF Len(l) = 1 THEN Repr(l[1])
    ELSE Repr(l[1]) \o <<",", " ">> \o ReprSeq(Tail(l))
\* the items of a dict body: 'k': v, ...
ReprItems(d) ==
    IF d = <<>> THEN <<>>
    ELSE LET one == Repr(PyStr(d[1][1])) \o <<":", " ">> \o Repr(d[1][2])
         IN  IF Len(d) = 1 THEN one ELSE one \o <<",", " ">> \o ReprItems(Tail(d))
Repr(x) ==
    CASE x.t = "none" -> <<"N", "o", "n", "e">>
      [] x.t = "str" -> <<"'">> \o x.v \o <<"'">>
      [] x.t = "float" -> IntStr(x.v) \o <<".", "0">>
      [] x.t = "int" -> IntStr(x.v)
      [] x.t = "list" -> <<"[">> \o ReprSeq(x.v) \o <<"]">>
      [] x.t = "dict" -> <<"{">> \o ReprItems(x.v) \o <<"}">>

\* str(list_of_pairs): "[('k', v), ...]"
RECURSIVE ReprPairs(_)
ReprPairs(items) ==
    IF items = <<>> THEN <<>>
    ELSE LET one == <<"(">> \o Repr(PyStr(items[1][1])) \o <<",", " ">>
                    \o Repr(items[1][2]) \o <<")">>
         IN  IF Len(items) = 1 THEN one ELSE one \o <<",", " ">> \o ReprPairs(Tail(items))

StrOfItems(items) == <<"[">> \o ReprPairs(items) \o <<"]">>

\* sorted(d.items()): the pairs in ascending key order (keys of a dict are distinct)
RECURSIVE InsertItem(_, _)
InsertItem(it, sorted) ==
    IF sorted = <<>> THEN <<it>>
    ELSE IF StrLess(it[1], sorted[1][1]) THEN <<it>> \o sorted
    ELSE <<sorted[1]>> \o InsertItem(it, Tail(sorted))

RECURSIVE SortedItems(_)
SortedItems(items) ==
    IF items = <<>> THEN <<>> ELSE InsertItem(items[1], SortedItems(Tail(items)))

(***************************************************************************)
(* String literals of the source                                           *)
(***************************************************************************)
S_none == <<"n", "o", "n", "e">>
S_search == <<"s", "e", "a", "r", "c", "h">>
S_ritchermap == <<"r", "i", "t", "c", "h", "e", "r", "m", "a", "p">>
S_analytics == <<"a", "n", "a", "l", "y", "t", "i", "c", "s">>
S_all == <<"a", "l", "l">>
S_markers == <<"m", "a", "r", "k", "e", "r", "s">>
S_games == <<"g", "a", "m", "e", "s">>
S_categories == <<"c", "a", "t", "e", "g", "o", "r", "i", "e", "s">>
S_relevance == <<"r", "e", "l", "e", "v", "a", "n", "c", "e">>
S_popularity == <<"p", "o", "p", "u", "l", "a", "r", "i", "t", "y">>
S_created_date == <<"c", "r", "e", "a", "t", "e", "d", "_", "d", "a", "t", "e">>
S_updated_date == <<"u", "p", "d", "a", "t", "e", "d", "_", "d", "a", "t", "e">>
S_alphabetical == <<"a", "l", "p", "h", "a", "b", "e", "t", "i", "c", "a", "l">>
S_game_ids == <<"g", "a", "m", "e", "_", "i", "d", "s">>
S_category_ids == <<"c", "a", "t", "e", "g", "o", "r", "y", "_", "i", "d", "s">>
S_tags == <<"t", "a", "g", "s">>
S_difficulty == <<"d", "i", "f", "f", "i", "c", "u", "l", "t", "y">>
S_completion_type ==
    <<"c", "o", "m", "p", "l", "e", "t", "i", "o", "n", "_", "t", "y", "p", "e">>
S_date_range == <<"d", "a", "t", "e", "_", "r", "a", "n", "g", "e">>
S_coordinates_bounds ==
    <<"c", "o", "o", "r", "d", "i", "n", "a", "t", "e", "s", "_", "b", "o", "u", "n", "d", "s">>
S_north == <<"n", "o", "r", "t", "h">>
S_south == <<"s", "o", "u", "t", "h">>
S_east == <<"e", "a", "s", "t">>
S_west == <<"w", "e", "s", "t">>

\* SearchType and SortOrder values (models/search.py)
SearchType == {S_markers, S_games, S_categories, S_all}
SortOrder == {S_relevance, S_popularity, S_created_date, S_updated_date, S_alphabetical}

(***************************************************************************)
(* CacheKeyBuilder (utils/cache_keys.py)                                   *)
(***************************************************************************)
\* Python truthiness of None, a number, a str, a list or a dict
Truthy(x) ==
    CASE x.t = "none" -> FALSE
      [] x.t \in {"float", "int"} -> x.v # 0
      [] x.t = "response" -> TRUE
      [] OTHER -> x.v # <<>>

\* faulty variant of _hash_dict: the items are hashed in insertion order
HashDictUnsorted(data) ==
    IF ~Truthy(data) THEN S_none ELSE Md5Hex8(StrOfItems(data.v))

\* _hash_dict(data): "none" for a falsy map, else the digest of the sorted items
HashDict(data) ==
    IF ~Truthy(data) THEN S_none ELSE Md5Hex8(StrOfItems(SortedItems(data.v)))

\* characters longer texts are digested beyond (len(text) > 50)
MaxCleanLen == 50

\* "".join(c for c in text if c.isalnum() or c in "-_").lower()
CleanChars(s) == 
    LET kept == SelectSeq(s, LAMBDA c : IsAlnum(c) \/ c \in {"-", "_"})
    IN  [i \in 1..Len(kept) |-> Lower(kept[i])]

\* _clean_string(text)
CleanString(text) ==
    IF ~Truthy(text) THEN S_none
    ELSE IF Len(text.v) > MaxCleanLen THEN Md5Hex8(text.v)
    ELSE CleanChars(text.v)

\* search_results_key(query, filters, sort, page, page_size)
SearchResultsKey(query, filters, sort, page, page_size) ==
    Join(<<":">>, <<S_ritchermap, S_search, CleanString(query), HashDict(filters),
                    sort, IntStr(page), IntStr(page_size)>>)

\* analytics_key(metric_type, time_period, filters)
AnalyticsKey(metric_type, time_period, filters) ==
    Join(<<":">>, <<S_ritchermap, S_analytics, metric_type, time_period,
                    HashDict(filters)>>)

(***************************************************************************)
(* SearchRequest, SearchFilter (models/search.py)                          *)
(***************************************************************************)
\* SearchFilter.dict().items(), in field declaration order
FilterItems(f) ==
    << <<S_game_ids, f.game_ids>>, <<S_category_ids, f.category_ids>>,
       <<S_tags, f.tags>>, <<S_difficulty, f.difficulty>>,
       <<S_completion_type, f.completion_type>>, <<S_date_range, f.date_range>>,
       <<S_coordinates_bounds, f.coordinates_bounds>> >>

\* SearchFilter(...): every field defaults to None
EmptyFilter ==
    [game_ids |-> None, category_ids |-> None, tags |-> None, difficulty |-> None,
     completion_type |-> None, date_range |-> None, coordinates_bounds |-> None]

\* request.filters.dict() if request.filters else None; a model instance is truthy
FiltersDict(filters) == IF filters = None THEN None ELSE PyDict(FilterItems(filters))

\* SearchService._generate_cache_key(request)
GenerateCacheKey(seed, request) ==
    LET key_parts == <<S_search, request.query, request.search_type, request.sort,
                       IntStr(request.page), IntStr(request.page_size)>>
        filter_str == StrOfItems(SortedItems(FilterItems(request.filters)))
    IN  Join(<<":">>,
             IF request.filters # None
             THEN Append(key_parts, IntStr(PyHash(seed, filter_str)))
             ELSE key_parts)


(***************************************************************************)
(* RedisClient (core/redis.py) over a Redis keyspace                       *)
(*                                                                         *)
(* A stored entry is [val, exp, wr]: the bytes, the time it expires at     *)
(* (NoExpiry for a key without TTL) and the time it was written. Every     *)
(* client call takes `ok`: whether the server answered; a call that is     *)
(* not answered raises and leaves the keyspace unchanged.                  *)
(***************************************************************************)
NoExpiry == -1
\* an empty keyspace, an empty index
NoKeys == <<>>
\* settings.CACHE_TTL
CACHE_TTL == 3600

Put(store, key, e) ==
    [k \in DOMAIN store \cup {key} |-> IF k = key THEN e ELSE store[k]]
Drop(store, keys) == [k \in DOMAIN store \ keys |-> store[k]]
\* a history without the keys that are gone from the keyspace
Forget(h, store) == [k \in DOMAIN h \cap DOMAIN store |-> h[k]]
\* the keyspace after the clock reached t: expired keys are gone
Expire(store, t) ==
    [k \in {x \in DOMAIN store : store[x].exp = NoExpiry \/ t < store[x].exp} |-> store[k]]

\* json.dumps accepts the value
RECURSIVE JsonSerializable(_)
JsonSerializable(x) ==
    CASE x.t \in {"none", "str", "int", "float", "response", "recs"} -> TRUE
      [] x.t \in {"list", "tuple"} -> \A i \in 1..Len(x.v) : JsonSerializable(x.v[i])
      [] x.t = "dict" -> \A i \in 1..Len(x.v) : JsonSerializable(x.v[i][2])
      [] OTHER -> FALSE

\* json.loads(json.dumps(x)): a tuple comes back as a list
RECURSIVE JsonRoundTrip(_)
JsonRoundTrip(x) ==
    CASE x.t \in {"list", "tuple"} ->
             PyList([i \in 1..Len(x.v) |-> JsonRoundTrip(x.v[i])])
      [] x.t = "dict" ->
             PyDict([i \in 1..Len(x.v) |-> <<x.v[i][1], JsonRoundTrip(x.v[i][2])>>])
      [] OTHER -> x

\* the serialization of set(): JSON first, pickle when json.dumps raises
Serialize(value) ==
    IF JsonSerializable(value) THEN [fmt |-> "json", data |-> value]
    ELSE [fmt |-> "pickle", data |-> value]

\* the deserialization of get(): json.loads(value), and pickle.loads only on
\* JSONDecodeError or TypeError; on pickled bytes json.loads raises
\* UnicodeDecodeError, which leaves the inner try
Deserialize(bytes) ==
    IF bytes.fmt = "json" THEN JsonRoundTrip(bytes.data) ELSE Raise

\* RedisClient.get(key)
RedisClientGet(store, key, ok) ==
    IF ~ok THEN None
    ELSE IF key \notin DOMAIN store THEN None
    ELSE LET value == Deserialize(store[key].val)
         IN  IF value = Raise THEN None ELSE value

\* RedisClient.set(key, value, expire): [store, ret]
RedisClientSet(store, t, key, value, expire, ok) ==
    LET ex == IF expire = None THEN CACHE_TTL ELSE expire.v
    IN  IF ~ok THEN [store |-> store, ret |-> FALSE]
        ELSE [store |-> Put(store, key, [val |-> Serialize(value), exp |-> t + ex, wr |-> t]),
              ret |-> TRUE]

\* RedisClient.delete(key): [store, ret]
RedisClientDelete(store, key, ok) ==
    IF ~ok THEN [store |-> store, ret |-> FALSE]
    ELSE [store |-> Drop(store, {key}), ret |-> key \in DOMAIN store]

\* RedisClient.exists(key)
RedisClientExists(store, key, ok) == ok /\ key \in DOMAIN store

\* the bytes hold a decimal integer (INCRBY works on it)
IsIntBytes(bytes) == bytes.fmt = "json" /\ bytes.data.t = "int"

\* RedisClient.increment(key, amount): [store, ret]; INCRBY fails on a value that
\* is not an integer, creates a missing key without TTL, and keeps a TTL
RedisClientIncrement(store, t, key, amount, ok) ==
    IF ~ok THEN [store |-> store, ret |-> 0]
    ELSE IF key \notin DOMAIN store
    THEN [store |-> Put(store, key, [val |-> Serialize(PyInt(amount)), exp |-> NoExpiry,
                                     wr |-> t]),
          ret |-> amount]
    ELSE IF ~IsIntBytes(store[key].val) THEN [store |-> store, ret |-> 0]
    ELSE LET n == store[key].val.data.v + amount
         IN  [store |-> Put(store, key, [store[key] EXCEPT !.val = Serialize(PyInt(n))]),
              ret |-> n]

\* KEYS pattern: "*" matches any run of characters, other characters themselves
RECURSIVE GlobMatch(_, _)
GlobMatch(p, k) ==
    IF p = <<>> THEN k = <<>>
    ELSE IF Head(p) = "*"
    THEN GlobMatch(Tail(p), k) \/ (k # <<>> /\ GlobMatch(p, Tail(k)))
    ELSE k # <<>> /\ Head(k) = Head(p) /\ GlobMatch(Tail(p), Tail(k))

Keys(store, pattern) == {k \in DOMAIN store : GlobMatch(pattern, k)}

(***************************************************************************)
(* CacheService (services/cache_service.py)                                *)
(***************************************************************************)
\* self.ttl_config.get(cache_type, self.default_ttl)
TtlConfig(cache_type) ==
    CASE cache_type = "search" -> 300
      [] cache_type = "autocomplete" -> 600
      [] cache_type = "trending" -> 300
      [] cache_type = "recommendations" -> 1800
      [] cache_type = "analytics" -> 600
      [] cache_type = "popular" -> 900
      [] cache_type = "user_session" -> 3600
      [] cache_type = "api_response" -> 300
      [] cache_type = "counters" -> 86400
      [] OTHER -> CACHE_TTL

\* faulty variant of CacheServiceGet: the failure of the store is not caught
CacheServiceGetRaising(store, key, ok) ==
    IF ~ok THEN Raise ELSE RedisClientGet(store, key, ok)

\* CacheService.get(key)
CacheServiceGet(store, key, ok) == RedisClientGet(store, key, ok)

\* CacheService.set(key, value, expire, cache_type): [store, ret]
CacheServiceSet(store, t, key, value, expire, cache_type, ok) ==
    LET ex == IF expire = None THEN PyInt(TtlConfig(cache_type)) ELSE expire
    IN  RedisClientSet(store, t, key, value, ex, ok)

\* CacheService.delete(key): [store, ret]
CacheServiceDelete(store, key, ok) == RedisClientDelete(store, key, ok)

\* CacheService.exists(key)
CacheServiceExists(store, key, ok) == RedisClientExists(store, key, ok)

\* CacheService.increment(key, amount): [store, ret]
CacheServiceIncrement(store, t, key, amount, ok) ==
    RedisClientIncrement(store, t, key, amount, ok)

\* CacheService.delete_pattern(pattern): [store, ret]; KEYS, then DEL of what
\* it returned, either of which may go unanswered
CacheServiceDeletePattern(store, pattern, okKeys, okDelete) ==
    LET keys == Keys(store, pattern)
    IN  IF ~okKeys THEN [store |-> store, ret |-> 0]
        ELSE IF keys = {} THEN [store |-> store, ret |-> 0]
        ELSE IF ~okDelete THEN [store |-> store, ret |-> 0]
        ELSE [store |-> Drop(store, keys), ret |-> Cardinality(keys)]

\* CacheService.get_many(keys): the dict of the keys that hit; oks[i] tells
\* whether the i-th call is answered
RECURSIVE CacheServiceGetMany(_, _, _)
CacheServiceGetMany(store, keys, oks) ==
    IF keys = <<>> THEN <<>>
    ELSE LET value == CacheServiceGet(store, keys[1], oks[1])
             rest == CacheServiceGetMany(store, Tail(keys), Tail(oks))
         IN  IF value # None /\ \A i \in 1..Len(rest) : rest[i][1] # keys[1]
             THEN << <<keys[1], value>> >> \o rest
             ELSE rest

\* CacheService.set_many(items, expire, cache_type): [store, ret], ret the
\* dict key -> bool, as pairs in the order of the items
RECURSIVE CacheServiceSetMany(_, _, _, _, _, _)
CacheServiceSetMany(store, t, items, expire, cache_type, oks) ==
    IF items = <<>> THEN [store |-> store, ret |-> <<>>]
    ELSE LET one == CacheServiceSet(store, t, items[1][1], items[1][2], expire,
                                    cache_type, oks[1])
             rest == CacheServiceSetMany(one.store, t, Tail(items), expire, cache_type,
                                         Tail(oks))
         IN  [store |-> rest.store, ret |-> << <<items[1][1], one.ret>> >> \o rest.ret]

\* faulty variant of delete_many: the loop stops at the first key that fails
RECURSIVE DeleteManyStopAtFailure(_, _, _)
DeleteManyStopAtFailure(store, keys, oks) ==
    IF keys = <<>> THEN [store |-> store, ret |-> <<>>]
    ELSE LET one == CacheServiceDelete(store, keys[1], oks[1])
             rest == IF oks[1] THEN DeleteManyStopAtFailure(one.store, Tail(keys), Tail(oks))
                     ELSE [store |-> one.store, ret |-> <<>>]
         IN  [store |-> rest.store, ret |-> << <<keys[1], one.ret>> >> \o rest.ret]

\* CacheService.delete_many(keys): [store, ret], ret the dict key -> bool
RECURSIVE CacheServiceDeleteMany(_, _, _)
CacheServiceDeleteMany(store, keys, oks) ==
    IF keys = <<>> THEN [store |-> store, ret |-> <<>>]
    ELSE LET one == CacheServiceDelete(store, keys[1], oks[1])
             rest == CacheServiceDeleteMany(one.store, Tail(keys), Tail(oks))
         IN  [store |-> rest.store, ret |-> << <<keys[1], one.ret>> >> \o rest.ret]

(***************************************************************************)
(* TextProcessor (utils/text_processing.py)                                *)
(***************************************************************************)
\* str.split(): the words between runs of spaces
RECURSIVE Split(_)
Split(s) ==
    IF s = <<>> THEN <<>>
    ELSE IF Head(s) = " " THEN Split(Tail(s))
    ELSE LET n == IF \E i \in 1..Len(s) : s[i] = " "
                  THEN (CHOOSE i \in 1..Len(s) : s[i] = " " /\ \A j \in 1..(i - 1) : s[j] # " ") - 1
                  ELSE Len(s)
         IN  <<SubSeq(s, 1, n)>> \o Split(SubSeq(s, n + 1, Len(s)))

\* process_search_query(query): clean_text lowercases and blanks every
\* character outside [\w\s\-_'".]; expand_synonyms splits and joins the words
\* (it adds words only for the gaming terms of its table)
ProcessSearchQuery(query) ==
    Join(<<" ">>, Split([i \in 1..Len(query) |->
                            IF IsAlnum(query[i]) \/ query[i] \in {" ", "-", "_", "'", "."}
                            THEN Lower(query[i]) ELSE " "]))

\* stop words: gaming_stop_words, and the English ones among short words
StopWords == {<<"g", "a", "m", "e">>, <<"m", "a", "p">>, <<"l", "e", "v", "e", "l">>,
              <<"a", "r", "e", "a">>, <<"l", "o", "c", "a", "t", "i", "o", "n">>,
              <<"p", "l", "a", "c", "e">>, <<"i", "t", "e", "m">>,
              <<"o", "b", "j", "e", "c", "t">>,
              <<"a">>, <<"a", "n">>, <<"t", "h", "e">>, <<"o", "f">>, <<"i", "n">>}

\* normalize_query(query): lowercase, drop every character outside
\* [\w\s\-_], drop the stop words, join the rest with single spaces
NormalizeQuery(query) ==
    LET kept == SelectSeq(query, LAMBDA c : IsAlnum(c) \/ c \in {" ", "-", "_"})
        words == Split([i \in 1..Len(kept) |-> Lower(kept[i])])
    IN  Join(<<" ">>, SelectSeq(words, LAMBDA w : w \notin StopWords))

(***************************************************************************)
(* The search index (Elasticsearch), as the service uses it                *)
(*                                                                         *)
(* es maps the key <<index, id>> of every indexed document to the          *)
(* document. A document carries rev, the revision of its content, in       *)
(* place of its descriptive fields.                                        *)
(***************************************************************************)
S_ab == <<"a", "b">>
S_1 == <<"1">>

\* _process_marker_for_indexing / _process_game_for_indexing /
\* _process_category_for_indexing: the document written for catalog data
ProcessForIndexing(index, data) ==
    [id |-> data.id, title |-> S_ab, rev |-> data.rev,
     game_id |-> IF index = S_games THEN None ELSE PyStr(S_1),
     coordinates |-> IF index = S_markers THEN [lat |-> 1, lon |-> 1] ELSE None]

\* one clause of bool.filter against a document; a document has none of the
\* fields category_id, tags, difficulty, completion_type, created_at
ClauseMatches(clause, doc) ==
    CASE clause.kind = "terms" ->
             /\ clause.field = "game_id"
             /\ doc.game_id # None
             /\ \E i \in 1..Len(clause.values.v) : clause.values.v[i] = doc.game_id
      [] clause.kind = "geo_bounding_box" ->
             /\ doc.coordinates # None
             /\ clause.bottom_right.lat.v <= doc.coordinates.lat
             /\ doc.coordinates.lat <= clause.top_left.lat.v
             /\ clause.top_left.lon.v <= doc.coordinates.lon
             /\ doc.coordinates.lon <= clause.bottom_right.lon.v
      [] OTHER -> FALSE

\* the indices a search addresses
SearchIndices(search_type) ==
    IF search_type = S_all THEN {S_markers, S_games, S_categories} ELSE {search_type}

\* the keys of the documents a query body matches, in result order: markers
\* before games before categories when sorted by relevance, reversed otherwise
IndexOrder(sort) ==
    IF sort = "_score" THEN <<S_markers, S_games, S_categories>>
    ELSE <<S_categories, S_games, S_markers>>

EsMatches(index, indices, body) ==
    LET order == IndexOrder(body.sort[1])
        ok(k) == /\ k \in DOMAIN index /\ k[1] \in indices
                 /\ \A i \in 1..Len(body.must) : body.must[i].query = index[k].title
                 /\ \A i \in 1..Len(body.filter) : ClauseMatches(body.filter[i], index[k])
    IN  SelectSeq([i \in 1..Len(order) |-> <<order[i], S_1>>], ok)

\* es_client.search(index=..., body=query): hits from..from+size of the
\* matches, the total, and the aggregations the body asks for
EsSearch(index, indices, body, took) ==
    LET all == EsMatches(index, indices, body)
        last == IF body.from + body.size < Len(all) THEN body.from + body.size ELSE Len(all)
    IN  [hits |-> [i \in 1..(IF last > body.from THEN last - body.from ELSE 0) |->
                      [index |-> all[body.from + i][1], source |-> index[all[body.from + i]],
                       highlighted |-> body.highlight]],
         total |-> Len(all),
         took |-> took,
         aggregations |-> {all[i][1] : i \in 1..Len(all)}]

(***************************************************************************)
(* SearchService (services/search_service.py)                              *)
(***************************************************************************)
\* d[key] on a dict: the value, or KeyError
DictItem(d, key) ==
    IF \E i \in 1..Len(d.v) : d.v[i][1] = key
    THEN d.v[CHOOSE i \in 1..Len(d.v) : d.v[i][1] = key][2]
    ELSE Raise

\* _add_filters(query, filters): the clauses appended to bool.filter, or the
\* KeyError of a coordinates_bounds dict that lacks one of its four keys
AddFilters(filters) ==
    LET terms(field, values) ==
            IF Truthy(values) THEN <<[kind |-> "terms", field |-> field, values |-> values]>>
            ELSE <<>>
        b == filters.coordinates_bounds
        corner(lat, lon) == [lat |-> DictItem(b, lat), lon |-> DictItem(b, lon)]
    IN  IF Truthy(b) /\ \E k \in {S_north, S_south, S_east, S_west} : DictItem(b, k) = Raise
        THEN Raise
        ELSE PyList(
             terms("game_id", filters.game_ids)
             \o terms("category_id", filters.category_ids)
             \o terms("tags", filters.tags)
             \o terms("difficulty", filters.difficulty)
             \o terms("completion_type", filters.completion_type)
             \o (IF Truthy(filters.date_range)
                 THEN <<[kind |-> "range", field |-> "created_at", range |-> filters.date_range]>>
                 ELSE <<>>)
             \o (IF Truthy(b)
                 THEN <<[kind |-> "geo_bounding_box", top_left |-> corner(S_north, S_west),
                         bottom_right |-> corner(S_south, S_east)]>>
                 ELSE <<>>))

\* _add_sorting(query, sort): the fields sorted on
AddSorting(sort) ==
    CASE sort = S_relevance -> <<"_score">>
      [] sort = S_popularity -> <<"popularity_score", "_score">>
      [] sort = S_created_date ->
             <<"created_at", "_score">>
      [] sort = S_updated_date ->
             <<"updated_at", "_score">>
      [] sort = S_alphabetical ->
             <<"title.keyword", "_score">>
      [] OTHER -> <<"_score">>

\* _build_search_query(request): the query body, or the exception raised
BuildSearchQuery(request) ==
    LET processed_query == ProcessSearchQuery(request.query)
        filter == IF request.filters # None THEN AddFilters(request.filters) ELSE PyList(<<>>)
    IN  IF filter = Raise THEN Raise
        ELSE [t |-> "query",
              size |-> request.page_size,
              from |-> (request.page - 1) * request.page_size,
              must |-> IF processed_query # <<>>
                       THEN <<[kind |-> "multi_match", query |-> processed_query]>>
                       ELSE <<>>,
              filter |-> filter.v,
              sort |-> AddSorting(request.sort),
              highlight |-> request.highlight]

\* faulty variant of TotalPages: the division rounds down
TotalPagesFloor(total_hits, page_size) == total_hits \div page_size

\* total_pages = (total_hits + request.page_size - 1) // request.page_size
TotalPages(total_hits, page_size) == (total_hits + page_size - 1) \div page_size

\* _process_search_results(es_response, request)
ProcessSearchResults(es_response, request) ==
    [hits |-> [i \in 1..Len(es_response.hits) |->
                  LET hit == es_response.hits[i]
                  IN  [id |-> hit.source.id,
                       source_type |-> CASE hit.index = S_markers -> "marker"
                                         [] hit.index = S_games -> "game"
                                         [] hit.index = S_categories -> "category"
                                         [] OTHER -> "unknown",
                       title |-> hit.source.title,
                       rev |-> hit.source.rev,
                       highlights |-> hit.highlighted]],
     total_hits |-> es_response.total,
     page |-> request.page,
     page_size |-> request.page_size,
     total_pages |-> TotalPages(es_response.total, request.page_size),
     took_ms |-> es_response.took,
     suggestions |-> None,
     facets |-> es_response.aggregations]

\* _get_search_suggestions(query): the titles the term suggester offers for
\* a query that is not itself a title of the index; [] when the call fails
GetSearchSuggestions(index, query, ok) ==
    IF ok /\ query # S_ab /\ index # NoKeys THEN <<S_ab>> ELSE <<>>

\* search_response.dict(), as cached
ResponseDict(response) == [t |-> "response", v |-> response]

(***************************************************************************)
(* AnalyticsService.track_search (services/analytics_service.py)           *)
(***************************************************************************)
\* RedisClient.zadd(key, mapping): [store, ret]; ZADD sets the score of each
\* member and fails on a key that holds another type
RedisClientZadd(store, t, key, member, score, ok) ==
    IF ~ok THEN [store |-> store, ret |-> 0]
    ELSE IF key \notin DOMAIN store
    THEN [store |-> Put(store, key, [val |-> [fmt |-> "zset", data |-> {<<member, score>>}],
                                     exp |-> NoExpiry, wr |-> t]),
          ret |-> 1]
    ELSE IF store[key].val.fmt # "zset" THEN [store |-> store, ret |-> 0]
    ELSE LET old == store[key].val.data
             new == {m \in old : m[1] # member} \cup {<<member, score>>}
         IN  [store |-> Put(store, key, [store[key] EXCEPT !.val.data = new]),
              ret |-> IF \E m \in old : m[1] = member THEN 0 ELSE 1]

\* RedisClient.expire(key, seconds): [store, ret]
RedisClientExpire(store, t, key, seconds, ok) ==
    IF ~ok \/ key \notin DOMAIN store THEN [store |-> store, ret |-> FALSE]
    ELSE [store |-> Put(store, key, [store[key] EXCEPT !.exp = t + seconds]), ret |-> TRUE]

\* datetime.now().strftime("%Y-%m-%d") and ("%Y-%m-%d-%H"), the clock
\* starting at 2024-01-01 00:00
Today(t) ==
    LET day == (t \div 86400) + 1
    IN  <<"2", "0", "2", "4", "-", "0", "1", "-">>
        \o <<Digits[(day \div 10) + 1], Digits[(day % 10) + 1]>>
CurrentHour(t) ==
    LET hour == (t % 86400) \div 3600
    IN  Today(t) \o <<"-", Digits[(hour \div 10) + 1], Digits[(hour % 10) + 1]>>

\* _update_search_counters(query, result_count): the keyspace afterwards
UpdateSearchCounters(store, t, query, result_count, ok) ==
    LET count_key == S_search \o <<":", "c", "o", "u", "n", "t", ":">> \o Today(t)
        query_key == S_search \o <<":", "q", "u", "e", "r", "y", ":">> \o Md5Hex8(query)
        zero_key == S_search \o <<":", "z", "e", "r", "o", "_", "r", "e", "s", "u", "l", "t",
                                  "s", ":">> \o Today(t)
        s1 == RedisClientIncrement(store, t, count_key, 1, ok).store
        s2 == RedisClientIncrement(s1, t, query_key, 1, ok).store
    IN  IF result_count = 0 THEN RedisClientIncrement(s2, t, zero_key, 1, ok).store ELSE s2

\* seconds a trending set is kept (25 hours)
TrendingTtl == 90000

\* _update_trending_queries(query): the keyspace afterwards
UpdateTrendingQueries(store, t, query, ok) ==
    LET trending_key == <<"t", "r", "e", "n", "d", "i", "n", "g", ":", "q", "u", "e", "r",
                          "i", "e", "s", ":">> \o CurrentHour(t)
        s1 == RedisClientZadd(store, t, trending_key, query, 1, ok).store
    IN  RedisClientExpire(s1, t, trending_key, TrendingTtl, ok).store

\* faulty variant of track_search: the counters are updated before the
\* event is indexed, and stay updated when the indexing fails
TrackSearchCountsFirst(store, n, t, query, result_count, okEvent, okCount, okTrend) ==
    LET normalized_query == NormalizeQuery(query)
        counted == UpdateTrendingQueries(
                       UpdateSearchCounters(store, t, normalized_query, result_count, okCount),
                       t, normalized_query, okTrend)
    IN  [store |-> counted, events |-> IF okEvent THEN n + 1 ELSE n, ret |-> okEvent]

\* track_search(query, ..., result_count, ...): [store, events, ret]; okEvent
\* tells whether the event was indexed, okCount whether the counter calls
\* were answered, okTrend whether the trending calls were
TrackSearch(store, n, t, query, result_count, okEvent, okCount, okTrend) ==
    LET normalized_query == NormalizeQuery(query)
    IN  IF ~okEvent THEN [store |-> store, events |-> n, ret |-> FALSE]
        ELSE [store |-> UpdateTrendingQueries(
                            UpdateSearchCounters(store, t, normalized_query, result_count, okCount),
                            t, normalized_query, okTrend),
              events |-> n + 1,
              ret |-> TRUE]

(***************************************************************************)
(* The HTTP handlers (api/v1/search.py)                                    *)
(***************************************************************************)
\* GET /search: the SearchRequest built from the query parameters
GetSearchRequest(params) ==
    LET bounds == <<params.north, params.south, params.east, params.west>>
        filter == [EmptyFilter EXCEPT !.game_ids = params.game_ids,
                                      !.category_ids = params.category_ids,
                                      !.tags = params.tags,
                                      !.difficulty = params.difficulty,
                                      !.completion_type = params.completion_type]
    IN  [query |-> params.q, search_type |-> params.search_type,
         filters |->
             IF \E x \in {params.game_ids, params.category_ids, params.tags, params.difficulty,
                          params.completion_type, params.north} : Truthy(x)
             THEN IF \A i \in 1..4 : Truthy(bounds[i])
                  THEN [filter EXCEPT !.coordinates_bounds =
                            PyDict(<< <<S_north, params.north>>, <<S_south, params.south>>,
                                      <<S_east, params.east>>, <<S_west, params.west>> >>)]
                  ELSE filter
             ELSE None,
         sort |-> params.sort, page |-> params.page, page_size |-> params.page_size,
         include_suggestions |-> params.include_suggestions,
         highlight |-> params.highlight]

(***************************************************************************)
(* Key builder harness: two inputs are drawn, both keys are built          *)
(***************************************************************************)

recVars == <<catalog, clicks, model, disk, procs, rlast, tlast, passes>>

\* RecommendationService.__init__ before _load_models: no model
NoModel ==
    [item_features |-> None, content_similarity_matrix |-> None, tfidf_vectorizer |-> None,
     model_last_trained |-> None]

\* no recommendation service at work
RecIdle ==
    /\ catalog = <<>> /\ clicks = <<>> /\ model = NoModel /\ disk = None
    /\ procs = <<>> /\ rlast = None /\ tlast = None /\ passes = 0

keyVars == <<inp, out, hashSeed>>
storeVars == <<redis, now, advances>>
cacheVars == <<cres, hist>>
sysVars == <<es, events, srch, idx, sres, ires, calls>>
\* no request, no indexing call in progress; nothing started yet
Idle == [pc |-> "idle"]
NoCalls == [searches |-> 0, writes |-> 0]

\* bounds of the inputs
MaxDictLen == 2
MaxSeed == 1

Long_a == [i \in 1..(MaxCleanLen + 1) |-> "a"]
Long_b == [i \in 1..(MaxCleanLen + 1) |-> IF i = MaxCleanLen + 1 THEN "b" ELSE "a"]

\* generic maps, as (key, value) pairs in insertion order, keys distinct
DictKeys == {<<"a">>, <<"b">>, <<"a", "b">>}
DictVals == {None, PyFloat(1)}
RECURSIVE DictsOfLen(_)
DictsOfLen(n) ==
    IF n = 0 THEN {<<>>}
    ELSE {Append(d, <<k, v>>) : d \in DictsOfLen(n - 1), k \in DictKeys, v \in DictVals}
DistinctKeys(d) == \A i, j \in 1..Len(d) : i # j => d[i][1] # d[j][1]
Dicts == {d \in UNION {DictsOfLen(n) : n \in 0..MaxDictLen} : DistinctKeys(d)}

\* arguments of search_results_key as any caller may pass them
KeyQueries == {None, PyStr(<<>>), PyStr(S_none), PyStr(<<"a">>), PyStr(Long_a)}
KeyFilters == {None, PyDict(<<>>), PyDict(<< <<S_tags, PyList(<<PyStr(<<"a">>)>>)>> >>),
               PyDict(<< <<S_tags, PyStr(S_none)>> >>)}
KeyArgs == [query : KeyQueries, filters : KeyFilters, sort : {S_relevance},
            page : {1}, page_size : {20}]

\* valid search requests
ReqQueries == {<<"a", "b">>, <<"a", " ", "b">>, <<"A", "b">>, Long_a, Long_b}
ReqFilters == {None, EmptyFilter,
               [EmptyFilter EXCEPT !.game_ids = PyList(<<PyStr(<<"a">>)>>)],
               [EmptyFilter EXCEPT !.game_ids = PyList(<<PyStr(<<"a">>), PyStr(<<"b">>)>>)],
               [EmptyFilter EXCEPT !.game_ids = PyList(<<PyStr(<<"b">>), PyStr(<<"a">>)>>)]}
ReqShapes == { <<S_all, S_relevance, 1, 20>>, <<S_markers, S_relevance, 1, 20>>,
               <<S_all, S_popularity, 1, 20>>, <<S_all, S_relevance, 2, 20>>,
               <<S_all, S_relevance, 1, 10>> }
Requests ==
    {[query |-> q, search_type |-> sh[1], filters |-> f, sort |-> sh[2],
      page |-> sh[3], page_size |-> sh[4]] : q \in ReqQueries, f \in ReqFilters,
                                              sh \in ReqShapes}

KeyInputs ==
    [kind : {"dict"}, a : {PyDict(d) : d \in Dicts}, b : {PyDict(d) : d \in Dicts}]
    \cup [kind : {"args"}, a : KeyArgs, b : KeyArgs]
    \cup [kind : {"request"}, a : Requests, b : Requests]

InitKeys ==
    /\ mode = "keys"
    /\ RecIdle
    /\ inp \in KeyInputs
    /\ out = None
    /\ hashSeed \in 0..MaxSeed
    /\ redis = NoKeys /\ now = 0 /\ advances = 0
    /\ cres = None /\ hist = NoKeys
    /\ es = NoKeys /\ events = 0 /\ srch = Idle /\ idx = Idle
    /\ sres = None /\ ires = None /\ calls = NoCalls

\* _hash_dict, and the two keys that embed it, on two maps
HashDictPair ==
    /\ mode = "keys" /\ inp.kind = "dict" /\ out = None
    /\ out' = [hash |-> <<HashDict(inp.a), HashDict(inp.b)>>,
                srk |-> <<SearchResultsKey(PyStr(<<"a">>), inp.a, S_relevance, 1, 20),
                          SearchResultsKey(PyStr(<<"a">>), inp.b, S_relevance, 1, 20)>>,
                ank |-> <<AnalyticsKey(S_search, S_all, inp.a),
                          AnalyticsKey(S_search, S_all, inp.b)>>]
    /\ UNCHANGED <<mode, recVars, inp, hashSeed, storeVars, cacheVars, sysVars>>

\* search_results_key on two argument lists
SearchResultsKeyPair ==
    /\ mode = "keys" /\ inp.kind = "args" /\ out = None
    /\ out' = [srk |-> <<SearchResultsKey(inp.a.query, inp.a.filters, inp.a.sort,
                                           inp.a.page, inp.a.page_size),
                          SearchResultsKey(inp.b.query, inp.b.filters, inp.b.sort,
                                           inp.b.page, inp.b.page_size)>>]
    /\ UNCHANGED <<mode, recVars, inp, hashSeed, storeVars, cacheVars, sysVars>>

\* the key of a request as CacheService.cache_search_results builds it
RequestResultsKey(r) ==
    SearchResultsKey(PyStr(r.query), FiltersDict(r.filters), r.sort, r.page, r.page_size)

\* the keys of every request of the harness, computed once per request
GenerateCacheKeyOf == [s \in 0..MaxSeed |-> [r \in Requests |-> GenerateCacheKey(s, r)]]
RequestResultsKeyOf == [r \in Requests |-> RequestResultsKey(r)]

\* both key derivations on two search requests
RequestKeyPair ==
    /\ mode = "keys" /\ inp.kind = "request" /\ out = None
    /\ out' = [gck |-> <<GenerateCacheKeyOf[hashSeed][inp.a],
                          GenerateCacheKeyOf[hashSeed][inp.b]>>,
                srk |-> <<RequestResultsKeyOf[inp.a], RequestResultsKeyOf[inp.b]>>]
    /\ UNCHANGED <<mode, recVars, inp, hashSeed, storeVars, cacheVars, sysVars>>

NextKeys == HashDictPair \/ SearchResultsKeyPair \/ RequestKeyPair

vars == <<mode, inp, out, hashSeed, redis, now, advances, cres, hist, es, events, srch, idx,
          sres, ires, calls, catalog, clicks, model, disk, procs, rlast, tlast, passes>>

SpecKeys == InitKeys /\ [][NextKeys]_vars

(***************************************************************************)
(* Claims about key derivation (checked under SpecKeys)                    *)
(***************************************************************************)
\* the two maps hold the same (key, value) pairs
SameItems(a, b) ==
    {a.v[i] : i \in 1..Len(a.v)} = {b.v[i] : i \in 1..Len(b.v)}

\* C6: for any filter map, building a cache key from it twice, with the map's
\* keys inserted in a different order, yields the identical key string
\* (_hash_dict, and search_results_key and analytics_key that embed it).
C6_KeyIndependentOfInsertionOrder ==
    (mode = "keys" /\ inp.kind = "dict" /\ out # None /\ SameItems(inp.a, inp.b))
        => /\ out.hash[1] = out.hash[2]
           /\ out.srk[1] = out.srk[2]
           /\ out.ank[1] = out.ank[2]

\* C6 witness: two different insertion orders of one map of at least two
\* entries were hashed
C6_Witness ==
    /\ mode = "keys" /\ inp.kind = "dict" /\ out # None
    /\ inp.a # inp.b /\ SameItems(inp.a, inp.b) /\ Len(inp.a.v) >= 2
    /\ out.hash[1] # S_none

\* the two requests differ only in parts of the key that no digest covers:
\* their filters are equal and their queries are equal or both short
NoDigestInvolved(a, b) ==
    /\ a.filters = b.filters
    /\ a.query = b.query \/ (Len(a.query) <= MaxCleanLen /\ Len(b.query) <= MaxCleanLen)

\* C7: two search requests that differ in query text, search_type, sort, page,
\* page_size or filter content never receive the same cache key, from
\* search_results_key and from _generate_cache_key alike (digest collisions
\* aside: stated here for the pairs whose difference no digest covers).
C7_DistinctRequestsDistinctKeys ==
    (mode = "keys" /\ inp.kind = "request" /\ out # None
       /\ inp.a # inp.b /\ NoDigestInvolved(inp.a, inp.b))
        => /\ out.gck[1] # out.gck[2]
           /\ out.srk[1] # out.srk[2]

\* component c is omitted in a and present in b, the other component is equal
OmittedVsPresent(a, b) ==
    \/ a.query = None /\ b.query # None /\ a.filters = b.filters
    \/ a.filters = None /\ b.filters # None /\ a.query = b.query

\* C8: a cache key built with an optional component omitted (filters = None,
\* query = None) differs from the key built with that component present but
\* empty (filters = {}, query = "") and from a key whose component is the
\* literal text of the sentinel.
C8_OmittedNeverCollides ==
    (mode = "keys" /\ inp.kind = "args" /\ out # None
       /\ inp.a.sort = inp.b.sort /\ inp.a.page = inp.b.page
       /\ inp.a.page_size = inp.b.page_size /\ OmittedVsPresent(inp.a, inp.b))
        => out.srk[1] # out.srk[2]


(***************************************************************************)
(* Expiry harness: CacheService.set / get / delete on one key while the    *)
(* clock advances. hist remembers, per key, the last value a set that      *)
(* returned True stored and has not been deleted since; a get records the  *)
(* time it ran at and what hist held for its key.                          *)
(***************************************************************************)
MaxAdvances == 2
\* seconds a slow awaited call may take
SlowCall == 5
ExplicitExpire == 5
S_k == <<"k">>
TtlKeys == {S_k}
TtlValues == {PyStr(<<"x">>), PyDatetime(0)}
CacheTypes == {"search", "autocomplete", "trending", "recommendations", "analytics",
               "popular", "user_session", "api_response", "counters", "default"}

InitTtl ==
    /\ mode = "ttl"
    /\ RecIdle
    /\ inp = None /\ out = None /\ hashSeed = 0
    /\ redis = NoKeys /\ now = 0 /\ advances = 0
    /\ cres = None /\ hist = NoKeys
    /\ es = NoKeys /\ events = 0 /\ srch = Idle /\ idx = Idle
    /\ sres = None /\ ires = None /\ calls = NoCalls

\* await cache_service.set(key, value, expire, cache_type)
TtlSet ==
    /\ mode = "ttl"
    /\ \E key \in TtlKeys, value \in TtlValues, expire \in {None, PyInt(ExplicitExpire)},
          cache_type \in CacheTypes, ok \in BOOLEAN :
          LET r == CacheServiceSet(redis, now, key, value, expire, cache_type, ok)
          IN  /\ redis' = r.store
              /\ cres' = [op |-> "set", key |-> key, ok |-> ok, ret |-> r.ret]
              /\ hist' = IF r.ret
                         THEN Put(hist, key, [value |-> value, wr |-> now, expire |-> expire,
                                              cache_type |-> cache_type])
                         ELSE hist
    /\ UNCHANGED <<mode, recVars, keyVars, now, advances, sysVars>>

\* await cache_service.get(key)
TtlGet ==
    /\ mode = "ttl"
    /\ \E key \in TtlKeys, ok \in BOOLEAN :
          cres' = [op |-> "get", key |-> key, ok |-> ok, at |-> now,
                   stored |-> IF key \in DOMAIN hist THEN hist[key] ELSE None,
                   ret |-> CacheServiceGet(redis, key, ok)]
    /\ UNCHANGED <<mode, recVars, keyVars, storeVars, hist, sysVars>>

\* await cache_service.delete(key)
TtlDelete ==
    /\ mode = "ttl"
    /\ \E key \in TtlKeys, ok \in BOOLEAN :
          LET r == CacheServiceDelete(redis, key, ok)
          IN  /\ redis' = r.store
              /\ cres' = [op |-> "delete", key |-> key, ok |-> ok, ret |-> r.ret]
              /\ hist' = IF ok THEN Drop(hist, {key}) ELSE hist
    /\ UNCHANGED <<mode, recVars, keyVars, now, advances, sysVars>>

\* the next moment a key expires, and the second before
ExpiryTimes(store) ==
    LET exps == {store[k].exp : k \in {x \in DOMAIN store : store[x].exp # NoExpiry}}
    IN  IF exps = {} THEN {}
        ELSE LET next == CHOOSE e \in exps : \A f \in exps : e <= f
             IN  {next - 1, next}

\* time passes: up to the next moment a key expires, or, while the service
\* awaits a call, for as long as a slow call takes
Advance ==
    /\ mode \in {"ttl", "clock"} /\ advances < MaxAdvances
    /\ \E t \in ExpiryTimes(redis) \cup
                 (IF mode = "clock" /\ (srch.pc # "idle" \/ idx.pc # "idle")
                  THEN {now + SlowCall} ELSE {}) :
          /\ t > now
          /\ now' = t
          /\ redis' = Expire(redis, t)
          /\ hist' = IF mode = "clock" THEN Forget(hist, Expire(redis, t)) ELSE hist
    /\ advances' = advances + 1
    /\ UNCHANGED <<mode, recVars, keyVars, cres, sysVars>>

NextTtl == TtlSet \/ TtlGet \/ TtlDelete \/ Advance

SpecTtl == InitTtl /\ [][NextTtl]_vars

(***************************************************************************)
(* The service at work: one search request at a time goes through its      *)
(* awaits (cache get, index query, suggestions, cache set, analytics)      *)
(* while one indexing call goes through its own (index write, then KEYS    *)
(* and DEL per invalidation pattern). Every call to the store, the index   *)
(* or the analytics log may go unanswered.                                 *)
(***************************************************************************)
MaxSearches == 2
MaxWrites == 1
\* settings.DEBUG
DEBUG == FALSE
\* expire=300 of the cache write in search()
SearchCacheTtl == 300

DefaultParams ==
    [q |-> S_ab, search_type |-> S_all, sort |-> S_relevance, page |-> 1, page_size |-> 20,
     include_suggestions |-> TRUE, highlight |-> TRUE, game_ids |-> None,
     category_ids |-> None, tags |-> None, difficulty |-> None, completion_type |-> None,
     north |-> None, south |-> None, east |-> None, west |-> None]
DefaultBody ==
    [query |-> S_ab, search_type |-> S_all, filters |-> None, sort |-> S_relevance,
     page |-> 1, page_size |-> 20, include_suggestions |-> TRUE, highlight |-> TRUE]

\* query strings of GET /search
GetParams ==
    IF mode \in {"sys", "clock"} THEN {[DefaultParams EXCEPT !.include_suggestions = FALSE]}
    ELSE {[DefaultParams EXCEPT !.q = q, !.game_ids = g, !.north = b[1], !.south = b[2],
                                !.east = b[3], !.west = b[4]] :
             q \in {<<"A", "b">>, <<"b", "b">>},
             g \in {None, PyList(<<PyStr(S_1)>>)},
             b \in [1..4 -> {None, PyFloat(0), PyFloat(1)}]}

\* coordinates_bounds dicts holding any of the four keys
BoundsDicts ==
    {PyDict(SelectSeq(<< <<S_north, PyFloat(1)>>, <<S_south, PyFloat(1)>>,
                         <<S_east, PyFloat(1)>>, <<S_west, PyFloat(1)>> >>,
                      LAMBDA kv : kv[1] \in ks)) : ks \in SUBSET {S_north, S_south, S_east, S_west}}

\* bodies of POST /search/advanced
PostBodies ==
    IF mode = "sys" THEN {[DefaultBody EXCEPT !.search_type = S_markers, !.page_size = 1]}
    ELSE {[DefaultBody EXCEPT !.query = q, !.filters = f] :
             q \in {S_ab, <<"b", "b">>},
             f \in {None} \cup {[EmptyFilter EXCEPT !.coordinates_bounds = d] : d \in BoundsDicts}}

\* a request enters SearchService.search
Enter(via, input, request) ==
    /\ mode \in {"sys", "api", "clock", "flags"} /\ srch.pc = "idle"
    /\ calls.searches < (IF mode = "api" THEN 1 ELSE MaxSearches)
    /\ calls' = [calls EXCEPT !.searches = @ + 1]
    /\ srch' = [pc |-> "get", via |-> via, input |-> input, request |-> request,
                start_time |-> now, cache_key |-> GenerateCacheKey(hashSeed, request),
                search_response |-> None, computed |-> 0]
    /\ sres' = None /\ ires' = None
    /\ UNCHANGED <<mode, recVars, keyVars, storeVars, cacheVars, es, events, idx>>

\* GET /search
GetSearch == \E params \in GetParams : Enter("GET", params, GetSearchRequest(params))

\* POST /search/advanced
AdvancedSearch == \E body \in PostBodies : Enter("POST", body, body)

\* the request ends: the response is returned, or the exception leaves
\* search() and the handler answers 500; hit tells of a response served from
\* the cache when it was computed and written, answered whether the index
\* answered the query
Leave(status, response, hit, answered) ==
    /\ sres' = [via |-> srch.via, input |-> srch.input, request |-> srch.request,
                status |-> status, response |-> response, hit |-> hit,
                answered |-> answered, at |-> now]
    /\ srch' = Idle

\* faulty variant of SearchCacheGet: a hit is recorded as a SearchEvent
SearchCacheGetRecordsHit ==
    /\ srch.pc = "get"
    /\ \E ok \in BOOLEAN :
          LET cached_result == CacheServiceGet(redis, srch.cache_key, ok)
          IN  IF cached_result = Raise THEN Leave(500, None, None, TRUE) /\ events' = events
              ELSE IF Truthy(cached_result) /\ ~DEBUG
              THEN /\ Leave(200,
                            [cached_result.v EXCEPT !.took_ms = (now - srch.start_time) * 1000],
                            hist[srch.cache_key], TRUE)
                   /\ events' = events + 1
              ELSE /\ srch' = [srch EXCEPT !.pc = "query"]
                   /\ sres' = sres
                   /\ events' = events
    /\ UNCHANGED <<mode, recVars, keyVars, storeVars, cacheVars, es, idx, ires, calls>>

\* cached_result = await self.cache.get(cache_key), and the return on a hit
SearchCacheGet ==
    /\ srch.pc = "get"
    /\ \E ok \in BOOLEAN :
          LET cached_result == CacheServiceGet(redis, srch.cache_key, ok)
          IN  IF cached_result = Raise THEN Leave(500, None, None, TRUE)
              ELSE IF Truthy(cached_result) /\ ~DEBUG
              THEN Leave(200,
                         [cached_result.v EXCEPT !.took_ms = (now - srch.start_time) * 1000],
                         hist[srch.cache_key], TRUE)
              ELSE /\ srch' = [srch EXCEPT !.pc = "query"]
                   /\ sres' = sres
    /\ UNCHANGED <<mode, recVars, keyVars, storeVars, cacheVars, es, events, idx, ires, calls>>

\* faulty variant of SearchQuery: a failed query is recorded as a SearchEvent
SearchQueryRecordsFailure ==
    /\ srch.pc = "query"
    /\ \E ok \in BOOLEAN :
          LET es_query == BuildSearchQuery(srch.request)
              response == EsSearch(es, SearchIndices(srch.request.search_type), es_query, 0)
              search_response == ProcessSearchResults(response, srch.request)
          IN  IF es_query = Raise \/ ~ok
              THEN Leave(500, None, None, es_query = Raise) /\ events' = events + 1
              ELSE /\ srch' = [srch EXCEPT !.search_response = search_response,
                                           !.computed = now,
                                           !.pc = IF /\ srch.request.include_suggestions
                                                     /\ search_response.total_hits < 5
                                                  THEN "suggest" ELSE "set"]
                   /\ sres' = sres /\ events' = events
    /\ UNCHANGED <<mode, recVars, keyVars, storeVars, cacheVars, es, idx, ires, calls>>

\* _build_search_query, es_client.search and _process_search_results
SearchQuery ==
    /\ srch.pc = "query"
    /\ \E ok \in BOOLEAN :
          LET es_query == BuildSearchQuery(srch.request)
              response == EsSearch(es, SearchIndices(srch.request.search_type), es_query, 0)
              search_response == ProcessSearchResults(response, srch.request)
          IN  IF es_query = Raise THEN Leave(500, None, None, TRUE)
              ELSE IF ~ok THEN Leave(500, None, None, FALSE)
              ELSE /\ srch' = [srch EXCEPT !.search_response = search_response,
                                           !.computed = now,
                                              !.pc = IF /\ srch.request.include_suggestions
                                                     /\ search_response.total_hits < 5
                                                  THEN "suggest" ELSE "set"]
                   /\ sres' = sres
    /\ UNCHANGED <<mode, recVars, keyVars, storeVars, cacheVars, es, events, idx, ires, calls>>

\* search_response.suggestions = await self._get_search_suggestions(query)
SearchSuggest ==
    /\ srch.pc = "suggest"
    /\ \E ok \in BOOLEAN :
          srch' = [srch EXCEPT !.pc = "set",
                               !.search_response.suggestions =
                                   PyList(GetSearchSuggestions(es, srch.request.query, ok))]
    /\ UNCHANGED <<mode, recVars, keyVars, storeVars, cacheVars, es, events, idx, sres, ires, calls>>

\* faulty variant of SearchCacheWrite: the entry is written without expire
SearchCacheWriteNoExpire(store, t, key, response, ok) ==
    CacheServiceSet(store, t, key, ResponseDict(response), None, "default", ok)

\* await self.cache.set(cache_key, search_response.dict(), expire=300)
SearchCacheWrite(store, t, key, response, ok) ==
    CacheServiceSet(store, t, key, ResponseDict(response), PyInt(SearchCacheTtl), "default", ok)

\* took_ms is set and the response is cached
SearchCacheSet ==
    /\ srch.pc = "set"
    /\ \E ok \in BOOLEAN :
          LET search_response ==
                  [srch.search_response EXCEPT !.took_ms = (now - srch.start_time) * 1000]
              r == SearchCacheWrite(redis, now, srch.cache_key, search_response, ok)
          IN  /\ redis' = r.store
              /\ srch' = [srch EXCEPT !.pc = "track", !.search_response = search_response]
              /\ hist' = IF r.ret
                         THEN Put(hist, srch.cache_key, [computed |-> srch.computed, wr |-> now])
                         ELSE hist
              /\ idx' = IF r.ret /\ idx.pc # "idle"
                        THEN [idx EXCEPT !.pre = @ \ {srch.cache_key}]
                        ELSE idx
    /\ UNCHANGED <<mode, recVars, keyVars, now, advances, cres, es, events, sres, ires, calls>>

\* await self.analytics.track_search(...), and the return of the response
SearchTrack ==
    /\ srch.pc = "track"
    /\ \E okEvent \in BOOLEAN, okStore \in BOOLEAN :
          LET r == TrackSearch(redis, events, now, srch.request.query,
                               srch.search_response.total_hits, okEvent, okStore, okStore)
          IN  /\ redis' = r.store
              /\ events' = r.events
              /\ Leave(200, srch.search_response, None, TRUE)
    /\ UNCHANGED <<mode, recVars, keyVars, now, advances, cacheVars, es, idx, ires, calls>>

(***************************************************************************)
(* IndexingService (services/indexing_service.py)                          *)
(***************************************************************************)
\* revisions catalog data comes in
Revs == {1}
CatalogData == [id : {S_1}, rev : Revs]
\* the index of a populated catalog
FullIndex ==
    [k \in {<<S_markers, S_1>>, <<S_games, S_1>>, <<S_categories, S_1>>} |->
        ProcessForIndexing(k[1], [id |-> S_1, rev |-> 1])]

\* faulty variant of InvalidationPatterns: the search:* pattern is left out
InvalidationWithoutSearch(op, doc_id, doc_type, game_id) ==
    <<<<"t", "r", "e", "n", "d", "i", "n", "g", ":">> \o doc_type \o <<":", "*">>, <<"r", "e", "c", "o", "m", "m", "e", "n", "d", "a", "t", "i", "o", "n", "s", ":", "*">>>>

\* the patterns of _invalidate_marker_caches, _invalidate_game_caches,
\* _invalidate_category_caches, _invalidate_bulk_caches("markers") and
\* _invalidate_document_caches(doc_id, doc_type)
InvalidationPatterns(op, doc_id, doc_type, game_id) ==
    CASE op = "index_marker" ->
             <<<<"s", "e", "a", "r", "c", "h", ":", "*">>, <<"t", "r", "e", "n", "d", "i", "n", "g", ":">> \o S_markers \o <<":", "*">>, <<"r", "e", "c", "o", "m", "m", "e", "n", "d", "a", "t", "i", "o", "n", "s", ":", "*">>,
               <<"g", "a", "m", "e", ":">> \o game_id \o <<":", "*">> >>
      [] op = "index_game" ->
             <<<<"s", "e", "a", "r", "c", "h", ":", "*">>, <<"t", "r", "e", "n", "d", "i", "n", "g", ":">> \o S_games \o <<":", "*">>, <<"g", "a", "m", "e", ":">> \o doc_id \o <<":", "*">> >>
      [] op = "index_category" ->
             <<<<"s", "e", "a", "r", "c", "h", ":", "*">>, <<"t", "r", "e", "n", "d", "i", "n", "g", ":">> \o S_categories \o <<":", "*">>,
               <<"g", "a", "m", "e", ":">> \o game_id \o <<":", "*">> >>
      [] op = "bulk_index_markers" ->
             <<<<"s", "e", "a", "r", "c", "h", ":", "*">>, <<"t", "r", "e", "n", "d", "i", "n", "g", ":">> \o S_markers \o <<":", "*">>, <<"r", "e", "c", "o", "m", "m", "e", "n", "d", "a", "t", "i", "o", "n", "s", ":", "*">>>>
      [] op = "delete_document" ->
             <<<<"s", "e", "a", "r", "c", "h", ":", "*">>, <<"t", "r", "e", "n", "d", "i", "n", "g", ":">> \o doc_type \o <<":", "*">>,
               <<"r", "e", "c", "o", "m", "m", "e", "n", "d", "a", "t", "i", "o", "n", "s", ":">> \o <<"*", ":">> \o doc_id \o <<":", "*">> >>

\* the keys that hold a cached search response
SearchEntries(store) ==
    {k \in DOMAIN store : store[k].val.fmt = "json" /\ store[k].val.data.t = "response"}

\* how an indexing call ended; pre are the search entries that were cached
\* when the call began and were not overwritten since, remaining those of
\* them still there, unanswered tells whether a KEYS or DEL of the search:*
\* pattern went unanswered
Ended(op, ok, indexed, failed, pre, unanswered, store) ==
    [op |-> op, ok |-> ok, indexed |-> indexed, failed |-> failed, pre |-> pre,
     remaining |-> pre \cap DOMAIN store, unanswered |-> unanswered]


\* an indexing call begins: the write to the index was made (written), or
\* the call returns at once
Begin(op, written, ok, indexed, failed, index, patterns) ==
    /\ mode \in {"sys", "clock"} /\ idx.pc = "idle" /\ calls.writes < MaxWrites
    /\ calls' = [calls EXCEPT !.writes = @ + 1]
    /\ es' = index
    /\ IF written
       THEN /\ idx' = [pc |-> "keys", op |-> op, ok |-> ok, indexed |-> indexed,
                       failed |-> failed, patterns |-> patterns, keys |-> {},
                       pre |-> SearchEntries(redis), unanswered |-> FALSE]
            /\ ires' = None
       ELSE /\ idx' = Idle
            /\ ires' = Ended(op, ok, indexed, failed, SearchEntries(redis), FALSE, redis)
    /\ sres' = None
    /\ UNCHANGED <<mode, recVars, keyVars, storeVars, cacheVars, events, srch>>

\* faulty variant of index_marker / index_game / index_category: the caches
\* are invalidated whether or not the document was written
IndexDocumentInvalidatesFirst(op, index) ==
    \E data \in CatalogData, ok \in BOOLEAN :
        LET doc == ProcessForIndexing(index, data)
        IN  Begin(op, TRUE, ok, 0, 0, IF ok THEN Put(es, <<index, doc.id>>, doc) ELSE es,
                  InvalidationPatterns(op, doc.id, index,
                                       IF doc.game_id = None THEN S_none ELSE doc.game_id.v))

\* index_marker / index_game / index_category (data): es_client.index raises,
\* or the document is written and the invalidation follows
IndexDocument(op, index) ==
    \E data \in CatalogData, ok \in BOOLEAN :
        LET doc == ProcessForIndexing(index, data)
        IN  Begin(op, ok, ok, 0, 0, IF ok THEN Put(es, <<index, doc.id>>, doc) ELSE es,
                  InvalidationPatterns(op, doc.id, index,
                                       IF doc.game_id = None THEN S_none ELSE doc.game_id.v))

IndexMarker == IndexDocument("index_marker", S_markers)
IndexGame == IndexDocument("index_game", S_games)
IndexCategory == IndexDocument("index_category", S_categories)

\* bulk_index_markers(markers): no marker given, es_client.bulk raises, or
\* each item is indexed or fails on its own
BulkIndexMarkers ==
    \E markers \in {<<>>} \cup {<<d>> : d \in CatalogData}, ok \in BOOLEAN, item \in BOOLEAN :
        LET doc == ProcessForIndexing(S_markers, markers[1])
            patterns == InvalidationPatterns("bulk_index_markers", S_none, S_markers, S_none)
        IN  IF markers = <<>> THEN Begin("bulk_index_markers", FALSE, TRUE, 0, 0, es, <<>>)
            ELSE IF ~ok THEN Begin("bulk_index_markers", FALSE, FALSE, 0, Len(markers), es, <<>>)
            ELSE IF item
            THEN Begin("bulk_index_markers", TRUE, TRUE, 1, 0,
                       Put(es, <<S_markers, doc.id>>, doc), patterns)
            ELSE Begin("bulk_index_markers", TRUE, FALSE, 0, 1, es, patterns)

\* delete_document(doc_id, doc_type): es_client.delete raises (the call is
\* unanswered, or the document is not there), or the document is deleted
DeleteDocument ==
    \E doc_type \in {S_markers, S_games, S_categories}, ok \in BOOLEAN :
        LET deleted == ok /\ <<doc_type, S_1>> \in DOMAIN es
        IN  Begin("delete_document", deleted, deleted, 0, 0,
                  IF deleted THEN Drop(es, {<<doc_type, S_1>>}) ELSE es,
                  InvalidationPatterns("delete_document", S_1, doc_type, S_none))

\* the next pattern of the invalidation, or the return of the call
NextPattern(p, store) ==
    IF Len(p.patterns) > 1
    THEN /\ idx' = [p EXCEPT !.pc = "keys", !.patterns = Tail(@), !.keys = {}]
         /\ ires' = ires
    ELSE /\ idx' = Idle
         /\ ires' = Ended(p.op, p.ok, p.indexed, p.failed, p.pre, p.unanswered, store)

\* _delete_cache_pattern: keys = await redis_client.client.keys(pattern)
DeleteCachePatternKeys ==
    /\ idx.pc = "keys"
    /\ \E ok \in BOOLEAN :
          LET keys == Keys(redis, Head(idx.patterns))
          IN  IF ~ok THEN NextPattern([idx EXCEPT !.unanswered =
                                          @ \/ Head(idx.patterns) = <<"s", "e", "a", "r", "c", "h", ":", "*">>], redis)
              ELSE IF keys = {} THEN NextPattern(idx, redis)
              ELSE /\ idx' = [idx EXCEPT !.pc = "delete", !.keys = keys]
                   /\ ires' = ires
    /\ UNCHANGED <<mode, recVars, keyVars, storeVars, cacheVars, es, events, srch, sres, calls>>

\* _delete_cache_pattern: await redis_client.client.delete(*keys)
DeleteCachePatternDelete ==
    /\ idx.pc = "delete"
    /\ \E ok \in BOOLEAN :
          LET store == IF ok THEN Drop(redis, idx.keys) ELSE redis
          IN  /\ redis' = store
              /\ hist' = Forget(hist, store)
              /\ NextPattern([idx EXCEPT !.unanswered =
                                 @ \/ (~ok /\ Head(idx.patterns) = <<"s", "e", "a", "r", "c", "h", ":", "*">>)], store)
    /\ UNCHANGED <<mode, recVars, keyVars, now, advances, cres, es, events, srch, sres, calls>>

(***************************************************************************)
(* The service: requests and indexing calls                                *)
(***************************************************************************)
InitSys ==
    /\ mode = "sys"
    /\ RecIdle
    /\ inp = None /\ out = None /\ hashSeed = 0
    /\ redis = NoKeys /\ now = 0 /\ advances = 0
    /\ cres = None /\ hist = NoKeys
    /\ es = FullIndex /\ events = 0 /\ srch = Idle /\ idx = Idle
    /\ sres = None /\ ires = None /\ calls = NoCalls

NextSys ==
    \/ GetSearch \/ AdvancedSearch
    \/ SearchCacheGet \/ SearchQuery \/ SearchSuggest \/ SearchCacheSet \/ SearchTrack
    \/ IndexMarker \/ IndexGame \/ IndexCategory \/ BulkIndexMarkers \/ DeleteDocument
    \/ DeleteCachePatternKeys \/ DeleteCachePatternDelete

SpecSys == InitSys /\ [][NextSys]_vars

(***************************************************************************)
(* The service under the clock: requests of one shape, deletions from the  *)
(* catalog, and time passing                                               *)
(***************************************************************************)
InitClock ==
    /\ mode = "clock"
    /\ RecIdle
    /\ inp = None /\ out = None /\ hashSeed = 0
    /\ redis = NoKeys /\ now = 0 /\ advances = 0
    /\ cres = None /\ hist = NoKeys
    /\ es = FullIndex /\ events = 0 /\ srch = Idle /\ idx = Idle
    /\ sres = None /\ ires = None /\ calls = NoCalls

NextClock ==
    \/ GetSearch
    \/ SearchCacheGet \/ SearchQuery \/ SearchCacheSet \/ SearchTrack
    \/ DeleteDocument \/ DeleteCachePatternKeys \/ DeleteCachePatternDelete
    \/ Advance

SpecClock == InitClock /\ [][NextClock]_vars

(***************************************************************************)
(* The handlers alone: one request of any shape against a fixed index      *)
(***************************************************************************)
InitApi ==
    /\ mode = "api"
    /\ RecIdle
    /\ inp = None /\ out = None /\ hashSeed = 0
    /\ redis = NoKeys /\ now = 0 /\ advances = 0
    /\ cres = None /\ hist = NoKeys
    /\ es \in {NoKeys, FullIndex} /\ events = 0 /\ srch = Idle /\ idx = Idle
    /\ sres = None /\ ires = None /\ calls = NoCalls

NextApi ==
    \/ GetSearch \/ AdvancedSearch
    \/ SearchCacheGet \/ SearchQuery \/ SearchSuggest \/ SearchCacheSet \/ SearchTrack

SpecApi == InitApi /\ [][NextApi]_vars

(***************************************************************************)
(* Claims about expiry (checked under SpecTtl)                             *)
(***************************************************************************)
\* the TTL the specification gives for a cache type
SpecifiedTtl(cache_type) ==
    CASE cache_type = "search" -> 300
      [] cache_type = "autocomplete" -> 600
      [] cache_type = "trending" -> 300
      [] cache_type = "recommendations" -> 1800
      [] cache_type = "analytics" -> 600
      [] cache_type = "popular" -> 900
      [] cache_type = "user_session" -> 3600
      [] cache_type = "counters" -> 86400
SpecifiedTypes == CacheTypes \ {"api_response", "default"}

\* an answered get of a key whose last stored value came from a set without
\* explicit expire under a cache type of the table
AnsweredGetOfTypedSet ==
    /\ cres # None /\ cres.op = "get" /\ cres.ok
    /\ cres.stored # None
    /\ cres.stored.expire = None
    /\ cres.stored.cache_type \in SpecifiedTypes

\* C3: a value set without explicit expire under cache type T is returned by
\* get until T's TTL of the table has elapsed (unless deleted or overwritten),
\* and is a miss from then on
C3_ValueReturnedUntilTtl ==
    AnsweredGetOfTypedSet =>
        IF cres.at < cres.stored.wr + SpecifiedTtl(cres.stored.cache_type)
        THEN cres.ret = cres.stored.value
        ELSE cres.ret = None

\* the same for values that json.dumps and json.loads carry unchanged: there
\* the TTL of the table is what decides between value and miss
C3_JsonValueReturnedUntilTtl ==
    (AnsweredGetOfTypedSet /\ cres.stored.value.t = "str") => C3_ValueReturnedUntilTtl

\* a string was read back just before, and missed at, the TTL of its type
C3_JsonWitness ==
    /\ AnsweredGetOfTypedSet /\ cres.stored.value.t = "str"
    /\ cres.stored.cache_type = "counters"
    /\ cres.at = cres.stored.wr + 86400 /\ cres.ret = None

(***************************************************************************)
(* Fault harness: every CacheService operation, with a store that may      *)
(* leave any single call unanswered. cres holds the last call: its keys,   *)
(* which of its store calls were answered, what it returned and the        *)
(* keyspace it started from.                                               *)
(***************************************************************************)
MaxCount == 2
S_s_a == <<"s", ":", "a">>
S_t == <<"t">>
FaultKeys == {S_s_a, S_t}
FaultValues == {PyStr(<<"x">>), PyDatetime(0)}
FaultPatterns == {<<"s", ":", "*">>, <<"*">>, <<"x", "*">>}
\* lists of distinct keys
KeyLists == {<<k>> : k \in FaultKeys} \cup
            {<<k1, k2>> : <<k1, k2>> \in {p \in FaultKeys \X FaultKeys : p[1] # p[2]}}
ItemLists == UNION {{[i \in 1..Len(ks) |-> <<ks[i], vs[i]>>] : vs \in [1..Len(ks) -> FaultValues]}
                    : ks \in KeyLists}
Call(op, keys, oks, ret) == [op |-> op, keys |-> keys, oks |-> oks, ret |-> ret, before |-> redis]

InitFault ==
    /\ mode = "fault"
    /\ RecIdle
    /\ inp = None /\ out = None /\ hashSeed = 0
    /\ redis = NoKeys /\ now = 0 /\ advances = 0
    /\ cres = None /\ hist = NoKeys
    /\ es = NoKeys /\ events = 0 /\ srch = Idle /\ idx = Idle
    /\ sres = None /\ ires = None /\ calls = NoCalls

FaultGet ==
    /\ mode = "fault"
    /\ \E key \in FaultKeys, ok \in BOOLEAN :
          cres' = Call("get", <<key>>, <<ok>>, CacheServiceGet(redis, key, ok))
    /\ UNCHANGED <<mode, recVars, keyVars, storeVars, hist, sysVars>>

FaultSet ==
    /\ mode = "fault"
    /\ \E key \in FaultKeys, value \in FaultValues, ok \in BOOLEAN :
          LET r == CacheServiceSet(redis, now, key, value, None, "search", ok)
          IN  /\ redis' = r.store
              /\ cres' = Call("set", <<key>>, <<ok>>, r.ret)
    /\ UNCHANGED <<mode, recVars, keyVars, now, advances, hist, sysVars>>

FaultDelete ==
    /\ mode = "fault"
    /\ \E key \in FaultKeys, ok \in BOOLEAN :
          LET r == CacheServiceDelete(redis, key, ok)
          IN  /\ redis' = r.store
              /\ cres' = Call("delete", <<key>>, <<ok>>, r.ret)
    /\ UNCHANGED <<mode, recVars, keyVars, now, advances, hist, sysVars>>

FaultExists ==
    /\ mode = "fault"
    /\ \E key \in FaultKeys, ok \in BOOLEAN :
          cres' = Call("exists", <<key>>, <<ok>>, CacheServiceExists(redis, key, ok))
    /\ UNCHANGED <<mode, recVars, keyVars, storeVars, hist, sysVars>>

FaultIncrement ==
    /\ mode = "fault"
    /\ \E key \in FaultKeys, ok \in BOOLEAN :
          /\ key \in DOMAIN redis /\ IsIntBytes(redis[key].val) => redis[key].val.data.v < MaxCount
          /\ LET r == CacheServiceIncrement(redis, now, key, 1, ok)
             IN  /\ redis' = r.store
                 /\ cres' = Call("increment", <<key>>, <<ok>>, r.ret)
    /\ UNCHANGED <<mode, recVars, keyVars, now, advances, hist, sysVars>>

FaultDeletePattern ==
    /\ mode = "fault"
    /\ \E pattern \in FaultPatterns, okKeys \in BOOLEAN, okDelete \in BOOLEAN :
          LET r == CacheServiceDeletePattern(redis, pattern, okKeys, okDelete)
          IN  /\ redis' = r.store
              /\ cres' = Call("delete_pattern", <<pattern>>, <<okKeys, okDelete>>, r.ret)
    /\ UNCHANGED <<mode, recVars, keyVars, now, advances, hist, sysVars>>

FaultGetMany ==
    /\ mode = "fault"
    /\ \E keys \in KeyLists : \E oks \in [1..Len(keys) -> BOOLEAN] :
          cres' = Call("get_many", keys, oks, CacheServiceGetMany(redis, keys, oks))
    /\ UNCHANGED <<mode, recVars, keyVars, storeVars, hist, sysVars>>

FaultSetMany ==
    /\ mode = "fault"
    /\ \E items \in ItemLists : \E oks \in [1..Len(items) -> BOOLEAN] :
          LET r == CacheServiceSetMany(redis, now, items, None, "search", oks)
          IN  /\ redis' = r.store
              /\ cres' = Call("set_many", items, oks, r.ret)
    /\ UNCHANGED <<mode, recVars, keyVars, now, advances, hist, sysVars>>

FaultDeleteMany ==
    /\ mode = "fault"
    /\ \E keys \in KeyLists : \E oks \in [1..Len(keys) -> BOOLEAN] :
          LET r == CacheServiceDeleteMany(redis, keys, oks)
          IN  /\ redis' = r.store
              /\ cres' = Call("delete_many", keys, oks, r.ret)
    /\ UNCHANGED <<mode, recVars, keyVars, now, advances, hist, sysVars>>

NextFault ==
    \/ FaultGet \/ FaultSet \/ FaultDelete \/ FaultExists \/ FaultIncrement
    \/ FaultDeletePattern \/ FaultGetMany \/ FaultSetMany \/ FaultDeleteMany

SpecFault == InitFault /\ [][NextFault]_vars

(***************************************************************************)
(* Claims about store failures (checked under SpecFault)                   *)
(***************************************************************************)
\* what a key holds in a keyspace
Held(store, key) == IF key \in DOMAIN store THEN store[key] ELSE None
SingleOps == {"get", "set", "delete", "exists", "increment"}

\* a single-key call, or delete_pattern, the store did not answer returns
\* the default of its operation and leaves the keyspace as it was
FailedCallDefaults ==
    /\ (cres.op \in SingleOps /\ ~cres.oks[1]) =>
           /\ redis = cres.before
           /\ cres.op = "get" => cres.ret = None
           /\ cres.op \in {"set", "delete", "exists"} => cres.ret = FALSE
           /\ cres.op = "increment" => cres.ret = 0
    /\ (cres.op = "delete_pattern" /\ (~cres.oks[1] \/ ~cres.oks[2])) =>
           /\ redis = cres.before
           /\ cres.ret = 0

\* in a batch, each key fares as it would alone: an answered key gets the
\* result of its own call on the keyspace the batch started from, a key
\* whose call failed is reported as a miss or False and is left untouched
BatchKeysIndependent ==
    /\ cres.op = "get_many" =>
           {cres.ret[i] : i \in 1..Len(cres.ret)} =
               {<<cres.keys[i], CacheServiceGet(cres.before, cres.keys[i], TRUE)>> :
                   i \in {j \in 1..Len(cres.keys) :
                              /\ cres.oks[j]
                              /\ CacheServiceGet(cres.before, cres.keys[j], TRUE) # None}}
    /\ cres.op = "set_many" =>
           /\ Len(cres.ret) = Len(cres.keys)
           /\ \A i \in 1..Len(cres.keys) :
                  LET key == cres.keys[i][1]
                  IN  /\ cres.ret[i] = <<key, cres.oks[i]>>
                      /\ Held(redis, key) =
                             IF cres.oks[i]
                             THEN Held(CacheServiceSet(cres.before, now, key, cres.keys[i][2],
                                                       None, "search", TRUE).store, key)
                             ELSE Held(cres.before, key)
    /\ cres.op = "delete_many" =>
           /\ Len(cres.ret) = Len(cres.keys)
           /\ \A i \in 1..Len(cres.keys) :
                  LET key == cres.keys[i]
                  IN  /\ cres.ret[i] = <<key, cres.oks[i] /\ key \in DOMAIN cres.before>>
                      /\ Held(redis, key) = IF cres.oks[i] THEN None ELSE Held(cres.before, key)

\* C4: no CacheService operation raises when the store fails: get returns
\* None, set / delete / exists return False, delete_pattern / increment
\* return 0, and in get_many / set_many / delete_many a failure on one key
\* affects only that key
C4_StoreFailuresAbsorbed ==
    cres # None => FailedCallDefaults /\ BatchKeysIndependent

\* a delete_many whose first key failed still deleted its second key
C4_Witness ==
    /\ cres # None /\ cres.op = "delete_many" /\ Len(cres.keys) = 2
    /\ ~cres.oks[1] /\ cres.oks[2]
    /\ cres.keys[1] \in DOMAIN redis
    /\ cres.keys[2] \in DOMAIN cres.before /\ cres.keys[2] \notin DOMAIN redis

(***************************************************************************)
(* Pagination harness: _process_search_results on the totals an index may  *)
(* report. The hits are left out; the pagination fields do not read them.  *)
(***************************************************************************)
MaxTotalHits == 205
MaxPageSize == 100

InitPages ==
    /\ mode = "pages"
    /\ RecIdle
    /\ inp \in [total_hits : 0..MaxTotalHits, page_size : 1..MaxPageSize, page : {1, 3}]
    /\ out = None /\ hashSeed = 0
    /\ redis = NoKeys /\ now = 0 /\ advances = 0
    /\ cres = None /\ hist = NoKeys
    /\ es = NoKeys /\ events = 0 /\ srch = Idle /\ idx = Idle
    /\ sres = None /\ ires = None /\ calls = NoCalls

ProcessResults ==
    /\ mode = "pages" /\ out = None
    /\ out' = ProcessSearchResults(
                  [hits |-> <<>>, total |-> inp.total_hits, took |-> 1, aggregations |-> {}],
                  [DefaultBody EXCEPT !.page = inp.page, !.page_size = inp.page_size])
    /\ UNCHANGED <<mode, recVars, inp, hashSeed, storeVars, cacheVars, sysVars>>

NextPages == ProcessResults

SpecPages == InitPages /\ [][NextPages]_vars

(***************************************************************************)
(* Claims about pagination (checked under SpecPages)                       *)
(***************************************************************************)
\* C9: for every total_hits >= 0 and page_size in 1..100 the response has
\* total_pages = ceil(total_hits / page_size), the least number of pages that
\* hold the hits, and the page and page_size of the request; with zero hits
\* the fields are there and total_pages is 0
C9_TotalPagesIsCeiling ==
    out # None =>
        /\ out.total_pages * inp.page_size >= inp.total_hits
        /\ (out.total_pages - 1) * inp.page_size < inp.total_hits
        /\ out.page = inp.page /\ out.page_size = inp.page_size
        /\ inp.total_hits = 0 => out.total_pages = 0

\* a last page that is not full, and a response without hits
C9_Witness ==
    /\ out # None
    /\ \/ inp.total_hits = 201 /\ inp.page_size = 100 /\ out.total_pages = 3
       \/ inp.total_hits = 0 /\ out.total_pages = 0 /\ out.page = 3

(***************************************************************************)
(* Claims about the handlers (checked under SpecApi)                       *)
(***************************************************************************)
\* the hits, the total and the pagination fields of a response
Answer(response) ==
    [hits |-> response.hits, total_hits |-> response.total_hits, page |-> response.page,
     page_size |-> response.page_size, total_pages |-> response.total_pages]

\* a request ended that was not served from the cache and whose index query,
\* if it came to it, was answered
EndedOnMiss == sres # None /\ sres.hit = None /\ sres.answered

\* C2: whatever the request and the index, and whether or not the store
\* answers the cache get and set and analytics records the search, search
\* returns the hits, total_hits and pagination fields that the index query of
\* the request yields, and no failure of the cache or of analytics ends the
\* request in an error
C2_CacheAndAnalyticsFailuresInvisible ==
    EndedOnMiss =>
        LET es_query == BuildSearchQuery(sres.request)
        IN  IF es_query = Raise THEN sres.status = 500
            ELSE /\ sres.status = 200
                 /\ Answer(sres.response) =
                        Answer(ProcessSearchResults(
                                   EsSearch(es, SearchIndices(sres.request.search_type),
                                            es_query, 0),
                                   sres.request))

\* a request was answered with hits although nothing was cached and nothing
\* recorded: the cache set and the analytics event had failed
C2_Witness ==
    /\ EndedOnMiss /\ sres.status = 200 /\ sres.response.total_hits > 0
    /\ redis = NoKeys /\ events = 0

\* the number of geographic bounds a request supplies
BoundsSupplied(via, input) ==
    IF via = "GET"
    THEN Cardinality({i \in 1..4 : <<input.north, input.south, input.east, input.west>>[i] # None})
    ELSE IF input.filters = None \/ input.filters.coordinates_bounds = None THEN 0
    ELSE Len(input.filters.coordinates_bounds.v)

\* C10: a request that supplies 1, 2 or 3 of the four geographic bounds is
\* answered successfully, with no geographic clause in the query, on GET
\* /search and on POST /search/advanced
C10_PartialBoundsAnswered ==
    (sres # None /\ sres.answered /\ BoundsSupplied(sres.via, sres.input) \in 1..3) =>
        /\ sres.status = 200
        /\ \A i \in 1..Len(BuildSearchQuery(sres.request).filter) :
               BuildSearchQuery(sres.request).filter[i].kind # "geo_bounding_box"

\* the same on GET /search alone, where the handler builds the bounds
C10_PartialBoundsAnsweredOnGet ==
    (sres # None /\ sres.via = "GET") => C10_PartialBoundsAnswered

(***************************************************************************)
(* Claims about invalidation (checked under SpecSys)                       *)
(***************************************************************************)
\* C1 as stated: after index_marker, index_game, index_category,
\* bulk_index_markers or delete_document has completed successfully, no cache
\* entry that search wrote before the call remains
C1_NoEntrySurvivesIndexing ==
    (ires # None /\ ires.ok) => ires.remaining = {}

\* C1, amended: after one of the five calls has completed successfully,
\* having written to or deleted from the index, and the store answered the
\* KEYS and DEL of its search:* invalidation, no cache entry that search
\* wrote before the call remains
C1_NoEntrySurvivesAnsweredInvalidation ==
    (/\ ires # None /\ ires.ok /\ ~ires.unanswered
     /\ ires.op = "bulk_index_markers" => ires.indexed > 0)
        => ires.remaining = {}

\* an indexing call ended well that began with responses in the cache
C1_Witness ==
    /\ ires # None /\ ires.ok /\ ~ires.unanswered
    /\ ires.op = "index_marker"
    /\ ires.pre # {} /\ ires.remaining = {}

(***************************************************************************)
(* Claims about staleness (checked under SpecClock)                        *)
(***************************************************************************)
\* C5 as stated: every response served from the cache was computed from the
\* index at most 300 seconds earlier
C5_ServedWithin300sOfQuery ==
    (sres # None /\ sres.hit # None) => sres.at - sres.hit.computed <= 300

\* C5, amended: every response served from the cache was written to the
\* cache less than 300 seconds earlier, and no cached search entry outlives
\* 300 seconds from the time it was written, whether or not an invalidation
\* ran or succeeded
C5_ServedWithin300sOfWrite ==
    /\ (sres # None /\ sres.hit # None) => sres.at - sres.hit.wr < 300
    /\ \A k \in SearchEntries(redis) :
           /\ redis[k].exp = redis[k].wr + 300
           /\ now < redis[k].exp

\* a response was served in the last second of its entry
C5_Witness ==
    /\ sres # None /\ sres.hit # None
    /\ sres.at - sres.hit.wr = 299

(***************************************************************************)
(* RecommendationService (services/recommendation_service.py)              *)
(* Scores are held in tenths: 10 is the float 1.0. A list of               *)
(* recommendations is the value [t |-> "recs", v |-> <<rec, ...>>].         *)
(***************************************************************************)
S_marker == <<"m", "a", "r", "k", "e", "r">>
S_game == <<"g", "a", "m", "e">>
S_category == <<"c", "a", "t", "e", "g", "o", "r", "y">>
S_content == <<"c", "o", "n", "t", "e", "n", "t">>
S_collaborative == <<"c", "o", "l", "l", "a", "b", "o", "r", "a", "t", "i", "v", "e">>
S_hybrid == <<"h", "y", "b", "r", "i", "d">>
S_anon == <<"a", "n", "o", "n">>
S_recommendations == <<"r", "e", "c", "o", "m", "m", "e", "n", "d", "a", "t", "i", "o", "n", "s">>

Recs(list) == [t |-> "recs", v |-> list]

\* sorted(items, key=..., reverse=True) and the order of an index sorted
\* descending: a stable sort of <<key, item>> pairs by descending key
SortDesc(pairs) ==
    LET n == Len(pairs)
        pos(i) == 1 + Cardinality({j \in 1..n : \/ pairs[j][1] > pairs[i][1]
                                                \/ pairs[j][1] = pairs[i][1] /\ j < i})
    IN  [k \in 1..n |-> pairs[CHOOSE i \in 1..n : pos(i) = k][2]]

\* list(a_set): the elements in some order
RECURSIVE ListOfSet(_)
ListOfSet(S) ==
    IF S = {} THEN <<>>
    ELSE LET x == CHOOSE y \in S : TRUE IN <<x>> \o ListOfSet(S \ {x})

\* seq[:n]
Take(seq, n) == SubSeq(seq, 1, IF n < Len(seq) THEN n ELSE Len(seq))

\* one recommendation dict; keys tells which of the score keys it has
Rec(id, type, game_id, keys, similarity, recommendation, popularity, reason) ==
    [id |-> id, type |-> type, game_id |-> game_id, keys |-> keys,
     similarity_score |-> similarity, recommendation_score |-> recommendation,
     popularity_score |-> popularity, reason |-> reason, reasons |-> <<>>]

\* rec.get(key, 0) on a score key
ScoreGet(rec, key) == IF key \in rec.keys THEN rec[key] ELSE 0

\* index_map.get(item_type, markers index)
PopularityIndex(item_type) ==
    CASE item_type = S_game -> S_games
      [] item_type = S_category -> S_categories
      [] OTHER -> S_markers

\* faulty variant of PopularityBasedRecommendations: the documents come in
\* the order of the index
PopularityUnsorted(cat, item_type, game_id, limit, ok) ==
    LET match(d) == /\ d.index = PopularityIndex(item_type)
                    /\ Truthy(game_id) => d.game_id = game_id
        hits == Take(SelectSeq(cat, match), limit)
    IN  IF ~ok THEN Recs(<<>>)
        ELSE Recs([i \in 1..Len(hits) |->
                     Rec(hits[i].id, item_type, hits[i].game_id, {"popularity_score"}, 0, 0,
                         IF hits[i].popularity_score = None THEN 0
                         ELSE hits[i].popularity_score.v, "Popular item")])

\* _popularity_based_recommendations(item_type, game_id, limit): the first
\* limit documents of the index of item_type, restricted to game_id when it
\* is given, by descending popularity_score, documents without the field
\* last; [] when the index query raises
PopularityBasedRecommendations(cat, item_type, game_id, limit, ok) ==
    LET match(d) == /\ d.index = PopularityIndex(item_type)
                    /\ Truthy(game_id) => d.game_id = game_id
        found == SelectSeq(cat, match)
        hits == Take(SortDesc([i \in 1..Len(found) |->
                        <<IF found[i].popularity_score = None THEN -1
                          ELSE found[i].popularity_score.v, found[i]>>]), limit)
        rec(source) ==
            Rec(source.id, item_type, source.game_id, {"popularity_score"}, 0, 0,
                IF source.popularity_score = None THEN 0 ELSE source.popularity_score.v,
                "Popular item")
    IN  IF ~ok THEN Recs(<<>>) ELSE Recs([i \in 1..Len(hits) |-> rec(hits[i])])

\* item_type.rstrip('s')
RECURSIVE Rstrip(_, _)
Rstrip(str, c) ==
    IF str # <<>> /\ str[Len(str)] = c THEN Rstrip(SubSeq(str, 1, Len(str) - 1), c) ELSE str

\* all_items of _train_content_model: the documents of the markers, games
\* and categories indices in this order; the feature text is the title
\* (the documents of the catalog have no description, tags or category_name)
AllItems(cat) ==
    LET of(index) == SelectSeq(cat, LAMBDA d : d.index = index)
        docs == of(S_markers) \o of(S_games) \o of(S_categories)
    IN  [i \in 1..Len(docs) |->
            [id |-> docs[i].id, type |-> Rstrip(docs[i].index, "s"),
             game_id |-> docs[i].game_id, feature_text |-> docs[i].title]]

\* the terms TfidfVectorizer takes from a text of one word: the word in
\* lower case when it has two characters or more
Terms(text) == IF Len(text) >= 2 THEN {[i \in 1..Len(text) |-> Lower(text[i])]} ELSE {}

\* the vocabulary of fit_transform with min_df=2 and max_df=0.8: the terms
\* found in at least 2 documents and in at most 0.8 x the number of documents
Vocabulary(features) ==
    LET n == Len(features)
        df(term) == Cardinality({i \in 1..n : term \in Terms(features[i].feature_text)})
    IN  {term \in UNION {Terms(features[i].feature_text) : i \in 1..n} :
            df(term) >= 2 /\ 10 * df(term) <= 8 * n}

\* cosine_similarity of the TF-IDF rows: a text of one word is the unit
\* vector of its term, or the zero vector when the term is not in the
\* vocabulary; the cosine of a zero vector with anything, itself included, is 0
CosineSimilarity(features) ==
    LET voc == Vocabulary(features)
        row(i) == Terms(features[i].feature_text) \cap voc
    IN  [i \in 1..Len(features) |->
            [j \in 1..Len(features) |->
                IF row(i) # {} /\ row(i) = row(j) THEN 10 ELSE 0]]

\* _train_content_model after the documents were fetched, with _save_models:
\* [model, disk, step], step the step that failed or "done". fetched tells
\* whether the index answered, similar whether cosine_similarity returned,
\* saved whether the model file was written
TrainContentModel(m, dsk, cat, pass, fetched, similar, saved) ==
    LET features == AllItems(cat)
        started == [m EXCEPT !.item_features = PyList(features),
                             !.tfidf_vectorizer = PyInt(pass)]
        trained == [started EXCEPT !.content_similarity_matrix =
                                       PyList(CosineSimilarity(features)),
                                   !.model_last_trained = PyInt(pass)]
    IN  IF ~fetched THEN [model |-> m, disk |-> dsk, step |-> "fetch"]
        ELSE IF features = <<>> THEN [model |-> m, disk |-> dsk, step |-> "empty"]
        ELSE IF Vocabulary(features) = {}
             THEN [model |-> started, disk |-> dsk, step |-> "vectorise"]
        ELSE IF ~similar THEN [model |-> started, disk |-> dsk, step |-> "similarity"]
        ELSE IF ~saved THEN [model |-> trained, disk |-> dsk, step |-> "save"]
        ELSE [model |-> trained, disk |-> [t |-> "model", v |-> trained], step |-> "done"]

\* `not self.content_similarity_matrix or not self.item_features`: "train"
\* when it is true, "raise" when the truth value of the array or of the
\* DataFrame is ambiguous (ValueError), "ready" when it is false
ModelUnavailable(m) ==
    LET matrix == m.content_similarity_matrix
        no_matrix == IF matrix = None THEN "true"
                     ELSE IF Len(matrix.v) = 1
                          THEN (IF matrix.v[1][1] = 0 THEN "true" ELSE "false")
                     ELSE "raise"
        no_features == IF m.item_features = None THEN "true" ELSE "raise"
    IN  CASE no_matrix = "raise" -> "raise"
          [] no_matrix = "true" -> "train"
          [] no_features = "raise" -> "raise"
          [] no_features = "true" -> "train"
          [] OTHER -> "ready"

\* faulty variant of ContentRanking: a seed that the feature table does not
\* hold gets no recommendations
ContentRankingNoFallback(m, cat, item_id, item_type, game_id, limit, okPopular) ==
    Recs(<<>>)

\* _content_based_recommendations after the model check (lines 85-133): the
\* row of the seed sorted by descending similarity, its first entry dropped,
\* the next 2 x limit - 1 filtered by game and type, at most limit kept.
\* Any exception outside the loop gives []; one inside skips the entry
ContentRanking(m, cat, item_id, item_type, game_id, limit, okPopular) ==
    IF m.item_features = None THEN Recs(<<>>)
    ELSE
    LET features == m.item_features.v
        item_idx == {i \in 1..Len(features) : features[i].id = item_id}
    IN  IF item_idx = {}
        THEN PopularityBasedRecommendations(cat, item_type, game_id, limit, okPopular)
        ELSE
        LET seed == CHOOSE i \in item_idx : \A j \in item_idx : i <= j
            matrix == m.content_similarity_matrix
        IN  IF matrix = None \/ seed > Len(matrix.v) THEN Recs(<<>>)
            ELSE
            LET row == matrix.v[seed]
                sim_scores == SortDesc([i \in 1..Len(row) |-> <<row[i], <<i, row[i]>>>>])
                window == SubSeq(sim_scores, 2,
                                 IF 2 * limit < Len(sim_scores) THEN 2 * limit
                                 ELSE Len(sim_scores))
                keep(e) == /\ e[1] <= Len(features)
                           /\ Truthy(game_id) => features[e[1]].game_id = game_id
                           /\ features[e[1]].type = item_type
                kept == Take(SelectSeq(window, keep), limit)
            IN  Recs([k \in 1..Len(kept) |->
                        Rec(features[kept[k][1]].id, features[kept[k][1]].type,
                            features[kept[k][1]].game_id, {"similarity_score"},
                            kept[k][2], 0, 0, "Similar content")])

\* _get_user_interactions(user_id): one dict per clicked id, with the keys
\* id, interaction_score and interaction_count; [] when the query raises
GetUserInteractions(clk, user_id, ok) ==
    IF ~ok \/ user_id \notin DOMAIN clk THEN <<>>
    ELSE LET ids == ListOfSet(clk[user_id])
         IN  [i \in 1..Len(ids) |->
                 [id |-> ids[i], interaction_score |-> 5, interaction_count |-> 1]]

\* the similarity _find_similar_users computes for every other user who
\* clicked one of user_items: common_items_count / len(user_items), held as
\* the fraction [num, den]
UserSimilarities(clk, user_id, user_items) ==
    LET others == ListOfSet({u \in DOMAIN clk : u # user_id /\ clk[u] \cap user_items # {}})
        common(u) == Cardinality(clk[u] \cap user_items)
    IN  [i \in 1..Len(others) |->
            [user |-> others[i], num |-> common(others[i]), den |-> Cardinality(user_items)]]

\* similarity >= settings.SIMILARITY_THRESHOLD
SIMILARITY_THRESHOLD == 7
AtLeastThreshold(sim) == 10 * sim.num >= SIMILARITY_THRESHOLD * sim.den

\* faulty variant of FindSimilarUsers: every other user is kept
FindSimilarUsersNoThreshold(clk, user_id, user_interactions, ok) ==
    IF ~ok THEN <<>>
    ELSE UserSimilarities(clk, user_id,
                          {user_interactions[i].id : i \in 1..Len(user_interactions)})

\* _find_similar_users(user_id, user_interactions): the users at or above
\* the threshold, by descending similarity; [] when the query raises
FindSimilarUsers(clk, user_id, user_interactions, ok) ==
    LET user_items == {user_interactions[i].id : i \in 1..Len(user_interactions)}
        all == UserSimilarities(clk, user_id, user_items)
        similar == SelectSeq(all, AtLeastThreshold)
    IN  IF ~ok THEN <<>>
        ELSE SortDesc([i \in 1..Len(similar) |-> <<similar[i].num, similar[i]>>])

\* _collaborative_filtering_recommendations(user_id, item_type, game_id,
\* limit): [recs, similar]. The items of the 20 most similar users that the
\* user has not clicked, of the type and game asked for, once each, by
\* descending score; an interaction dict has no 'type', and one that passed
\* the filters has no 'title' (KeyError, caught: [])
CollaborativeFilteringRecommendations(clk, cat, user_id, item_type, game_id, limit, okPopular, okUser, okSimilar, okOthers) ==
    LET popular == PopularityBasedRecommendations(cat, item_type, game_id, limit, okPopular)
        user_interactions ==
            IF Truthy(user_id) THEN GetUserInteractions(clk, user_id.v, okUser) ELSE <<>>
        similar_users == Take(FindSimilarUsers(clk, user_id.v, user_interactions, okSimilar), 20)
        clicked == {user_interactions[i].id : i \in 1..Len(user_interactions)}
        items(n) == GetUserInteractions(clk, similar_users[n].user, okOthers)
        passes_filters(item) ==
            /\ item.id \notin clicked
            /\ "type" \in DOMAIN item /\ item.type = item_type
            /\ Truthy(game_id) => "game_id" \in DOMAIN item /\ item.game_id = game_id
        raised == \E n \in 1..Len(similar_users) : \E k \in 1..Len(items(n)) :
                      passes_filters(items(n)[k]) /\ "title" \notin DOMAIN items(n)[k]
    IN  IF ~Truthy(user_id) \/ user_interactions = <<>>
        THEN [recs |-> popular, similar |-> <<>>]
        ELSE [recs |-> Recs(<<>>), similar |-> IF raised THEN <<>> ELSE similar_users]

\* the weights of _hybrid_recommendations, in tenths
ContentWeight == 4
CollaborativeWeight == 4
PopularityWeight == 2

\* faulty variant of Weighted: every strategy counts in full
Unweighted(score, weight) == score

\* score * weight, the weight in tenths
Weighted(score, weight) == (score * weight) \div 10

\* the three loops of _hybrid_recommendations over combined_scores: one
\* entry per id in the order of first appearance, the first dict seen for
\* the id, the weighted scores summed and the reasons appended
RECURSIVE Combine(_, _)
Combine(combined, scored) ==
    IF scored = <<>> THEN combined
    ELSE LET rec == scored[1].rec
             at == {i \in 1..Len(combined) : combined[i].id = rec.id}
             entered == IF at = {}
                        THEN Append(combined, [id |-> rec.id, score |-> 0, data |-> rec,
                                               reasons |-> <<>>])
                        ELSE combined
             i == CHOOSE k \in 1..Len(entered) : entered[k].id = rec.id
         IN  Combine([entered EXCEPT ![i].score = @ + scored[1].score,
                                     ![i].reasons = Append(@, rec.reason)],
                     Tail(scored))

\* the merge of _hybrid_recommendations (lines 285-329)
HybridMerge(content_recs, collaborative_recs, popularity_recs, limit) ==
    LET scored(recs, key, weight) ==
            [i \in 1..Len(recs) |->
                [rec |-> recs[i], score |-> Weighted(ScoreGet(recs[i], key), weight)]]
        combined_scores ==
            Combine(<<>>, scored(content_recs, "similarity_score", ContentWeight)
                          \o scored(collaborative_recs, "recommendation_score",
                                    CollaborativeWeight)
                          \o scored(popularity_recs, "popularity_score", PopularityWeight))
        sorted_items == SortDesc([i \in 1..Len(combined_scores) |->
                                     <<combined_scores[i].score, combined_scores[i]>>])
        top == Take(sorted_items, limit)
    IN  Recs([i \in 1..Len(top) |->
                [top[i].data EXCEPT
                    !.keys = @ \cup {"recommendation_score", "reasons"},
                    !.recommendation_score = top[i].score,
                    !.reasons = ListOfSet({top[i].reasons[k] : k \in 1..Len(top[i].reasons)})]])

\* cache_key of get_recommendations, as the tuple of its parts
RecommendationsKey(args) ==
    <<S_recommendations,
      IF Truthy(args.user_id) THEN args.user_id.v ELSE S_anon,
      IF Truthy(args.item_id) THEN args.item_id.v ELSE S_none,
      args.item_type,
      IF Truthy(args.game_id) THEN args.game_id.v ELSE S_all,
      NatStr(args.limit), args.strategy>>

\* the strategies of a request do or do not get answers from the indices
AllAnswered ==
    [popular |-> TRUE, content |-> TRUE, user |-> TRUE, similar |-> TRUE, fallback |-> TRUE]
Answers == [popular : BOOLEAN, content : BOOLEAN, user : BOOLEAN, similar : BOOLEAN,
            fallback : BOOLEAN]

\* _content_based_recommendations once the model check and the training it
\* may have awaited are over: raises when the check raised
ContentBasedRecommendations(m, cat, args, check, ok) ==
    IF check = "raise" THEN Raise
    ELSE ContentRanking(m, cat, args.item_id.v, args.item_type, args.game_id, args.limit,
                        ok.content)

\* _hybrid_recommendations(user_id, item_id, item_type, game_id, limit)
HybridRecommendations(m, cat, clk, args, check, ok) ==
    LET popularity_recs ==
            PopularityBasedRecommendations(cat, args.item_type, args.game_id, args.limit,
                                           ok.popular)
        content_recs == IF Truthy(args.item_id)
                        THEN ContentBasedRecommendations(m, cat, args, check, ok)
                        ELSE Recs(<<>>)
        collaborative_recs ==
            IF Truthy(args.user_id)
            THEN CollaborativeFilteringRecommendations(
                     clk, cat, args.user_id, args.item_type, args.game_id, args.limit,
                     ok.popular, ok.user, ok.similar, ok.similar).recs
            ELSE Recs(<<>>)
    IN  IF Raise \in {popularity_recs, content_recs, collaborative_recs} THEN Raise
        ELSE HybridMerge(content_recs.v, collaborative_recs.v, popularity_recs.v, args.limit)

\* the strategy get_recommendations dispatches to (lines 47-62)
Dispatch(m, cat, clk, args, check, ok) ==
    CASE args.strategy = S_content -> ContentBasedRecommendations(m, cat, args, check, ok)
      [] args.strategy = S_collaborative ->
             CollaborativeFilteringRecommendations(
                 clk, cat, args.user_id, args.item_type, args.game_id, args.limit,
                 ok.popular, ok.user, ok.similar, ok.similar).recs
      [] args.strategy = S_popularity ->
             PopularityBasedRecommendations(cat, args.item_type, args.game_id, args.limit,
                                            ok.popular)
      [] OTHER -> HybridRecommendations(m, cat, clk, args, check, ok)

\* faulty variant of ComputeRecommendations: the exception of the strategy
\* is not caught
ComputeRecommendationsUncaught(store, t, m, cat, clk, args, check, ok, okSet) ==
    LET recommendations == Dispatch(m, cat, clk, args, check, ok)
    IN  [result |-> recommendations,
         store |-> IF recommendations = Raise THEN store
                   ELSE CacheServiceSet(store, t, RecommendationsKey(args), recommendations,
                                        PyInt(3600), "default", okSet).store]

\* get_recommendations after the cache lookup missed (lines 46-71):
\* [result, store]; the result of the strategy is cached for an hour, an
\* exception is answered by the popularity strategy and not cached
ComputeRecommendations(store, t, m, cat, clk, args, check, ok, okSet) ==
    LET recommendations == Dispatch(m, cat, clk, args, check, ok)
    IN  IF recommendations = Raise
        THEN [result |-> PopularityBasedRecommendations(cat, args.item_type, args.game_id,
                                                        args.limit, ok.fallback),
              store |-> store]
        ELSE [result |-> recommendations,
              store |-> CacheServiceSet(store, t, RecommendationsKey(args), recommendations,
                                        PyInt(3600), "default", okSet).store]

\* _load_models(): the model of the file, none when there is no file or it
\* cannot be read
LoadModels(dsk, ok) == IF dsk = None \/ ~ok THEN NoModel ELSE dsk.v

\* does this call consult the content model
ReadsContentModel(args) ==
    \/ args.strategy = S_content
    \/ args.strategy \notin {S_collaborative, S_popularity} /\ Truthy(args.item_id)

\* the answers that a request can tell apart: a query it does not make
\* counts as answered
AnswersFor(args, check) ==
    LET asks_user == args.strategy \notin {S_content, S_popularity} /\ Truthy(args.user_id)
    IN  {ok \in Answers :
            /\ ok.popular \/ args.strategy # S_content
            /\ ok.content \/ (ReadsContentModel(args) /\ check # "raise")
            /\ ok.user \/ asks_user
            /\ ok.similar \/ asks_user
            /\ ok.fallback \/ (ReadsContentModel(args) /\ check = "raise")}

(***************************************************************************)
(* The recommendation service at work: tasks of the event loop call        *)
(* get_recommendations and retrain_models_if_needed. A task yields where   *)
(* _train_content_model awaits the index; the queries of the strategies    *)
(* read a catalog that does not change and are taken in one step. The     *)
(* run is followed to the end of one request, among any retrain calls.     *)
(***************************************************************************)
MaxTasks == 2
MaxPasses == 2

Tasks == 1..MaxTasks

M1 == <<"m", "1">>
M2 == <<"m", "2">>
M3 == <<"m", "3">>
M9 == <<"m", "9">>
G1 == <<"g", "1">>
G2 == <<"g", "2">>
C1 == <<"c", "1">>
U1 == <<"u", "1">>
U2 == <<"u", "2">>
U3 == <<"u", "3">>
U9 == <<"u", "9">>
S_cd == <<"c", "d">>
S_ef == <<"e", "f">>

Doc(index, id, title, game_id, popularity_score) ==
    [index |-> index, id |-> id, title |-> title, game_id |-> game_id,
     popularity_score |-> popularity_score]

\* two markers of one title: too few documents for min_df=2 with max_df=0.8
CatalogPair ==
    <<Doc(S_markers, M1, S_ab, PyStr(G1), PyFloat(10)),
      Doc(S_markers, M2, S_ab, PyStr(G1), PyFloat(30))>>

\* three markers, a game and a category; a category document has no
\* popularity_score (_process_category_for_indexing)
CatalogFull ==
    <<Doc(S_markers, M1, S_ab, PyStr(G1), PyFloat(10)),
      Doc(S_markers, M2, S_ab, PyStr(G1), PyFloat(30)),
      Doc(S_markers, M3, S_cd, PyStr(G2), PyFloat(20)),
      Doc(S_games, G1, S_ab, None, PyFloat(20)),
      Doc(S_categories, C1, S_ef, PyStr(G1), None)>>

Catalogs == {<<>>, CatalogPair, CatalogFull}

\* the clicks recorded in search_analytics
ClickTable ==
    U1 :> {M1, M2, M3} @@ U2 :> {M1, M2} @@ U3 :> {M1, M2, M3, G1}

RecArgs(strategy, user_id, item_id, item_type, game_id, limit) ==
    [strategy |-> strategy, user_id |-> user_id, item_id |-> item_id,
     item_type |-> item_type, game_id |-> game_id, limit |-> limit]

\* the cache the service may find when it starts: empty, or an answer kept
\* from an earlier run
CachedRequest == RecArgs(S_popularity, None, None, S_marker, None, 2)
Caches ==
    {NoKeys,
     ComputeRecommendations(NoKeys, 0, NoModel, CatalogPair, ClickTable, CachedRequest,
                            "none", AllAnswered, TRUE).store}

\* the model files the service may find when it starts
SavedModels ==
    {None, [t |-> "model",
            v |-> TrainContentModel(NoModel, None, CatalogFull, 0, TRUE, TRUE, TRUE).model]}

\* the requests made
RecRequests ==
    {RecArgs(S_content, None, PyStr(i), S_marker, g, n) :
        i \in {M2, M9}, g \in {None, PyStr(G1)}, n \in {1, 2}}
    \cup {RecArgs(S_content, None, PyStr(M1), S_game, None, 1)}
    \cup {RecArgs(S_collaborative, u, None, S_marker, None, 2) :
        u \in {None, PyStr(U1), PyStr(U9)}}
    \cup {RecArgs(S_popularity, None, None, t, g, n) :
        t \in {S_marker, S_category}, g \in {None, PyStr(G1)}, n \in {1, 2}}
    \cup {RecArgs(S_hybrid, u, i, S_marker, None, n) :
        u \in {None, PyStr(U1)}, i \in {None, PyStr(M1)}, n \in {2}}

InitRec ==
    /\ mode = "rec"
    /\ catalog \in Catalogs /\ clicks = ClickTable
    /\ disk \in SavedModels
    /\ \E ok \in BOOLEAN : model = LoadModels(disk, ok)
    /\ procs = [p \in Tasks |-> Idle] /\ rlast = None /\ tlast = None /\ passes = 0
    /\ inp = None /\ out = None /\ hashSeed = 0
    /\ redis \in Caches /\ now = 0 /\ advances = 0
    /\ cres = None /\ hist = NoKeys
    /\ es = NoKeys /\ events = 0 /\ srch = Idle /\ idx = Idle
    /\ sres = None /\ ires = None /\ calls = NoCalls

\* how a request ended: what it returned, whether the cache served it,
\* whether it awaited a training pass, what the model check gave, which
\* queries were answered, and whether the feature table it read had the seed
RequestEnded(p, args, result, cached, waited, check, ok, m) ==
    [args |-> args, result |-> result, cached |-> cached, waited |-> waited,
     check |-> check, ok |-> ok,
     seed |-> IF m.item_features = None THEN "no table"
              ELSE IF \E i \in 1..Len(m.item_features.v) :
                          m.item_features.v[i].id = args.item_id.v
                   THEN "present" ELSE "absent"]

\* the rest of get_recommendations once the model check is over
Finish(p, args, m, check, waited) ==
    \E ok \in AnswersFor(args, check), okSet \in BOOLEAN :
        LET r == ComputeRecommendations(redis, now, m, catalog, clicks, args, check, ok, okSet)
        IN  /\ rlast' = RequestEnded(p, args, r.result, FALSE, waited, check, ok, m)
            /\ redis' = r.store

\* get_recommendations(...) up to its first await of a training pass, or
\* to its end when it awaits none
GetRecommendations(p) ==
    /\ mode = "rec" /\ rlast = None
    /\ procs[p] = Idle
    /\ \A t \in Tasks \ {p} : IF procs[t] = Idle THEN TRUE ELSE procs[t].call = "retrain"
    /\ \E args \in RecRequests, okGet \in BOOLEAN :
        LET cached == CacheServiceGet(redis, RecommendationsKey(args), okGet)
            check == IF ReadsContentModel(args) THEN ModelUnavailable(model) ELSE "none"
        IN  IF Truthy(cached)
            THEN /\ rlast' = RequestEnded(p, args, cached, TRUE, FALSE, "none", AllAnswered, model)
                 /\ UNCHANGED <<redis, procs, passes>>
            ELSE IF check = "train"
            THEN /\ passes < MaxPasses
                 /\ procs' = [procs EXCEPT ![p] = [pc |-> "training", call |-> "request",
                                                   args |-> args, pass |-> passes + 1]]
                 /\ passes' = passes + 1
                 /\ UNCHANGED <<redis, rlast>>
            ELSE /\ Finish(p, args, model, check, FALSE)
                 /\ UNCHANGED <<procs, passes>>
    /\ UNCHANGED <<mode, keyVars, now, advances, cacheVars, sysVars,
                   catalog, clicks, model, disk, tlast>>

\* retrain_models_if_needed() up to the await of the training pass; stale
\* tells whether the model is older than 24 hours
RetrainModelsIfNeeded(p) ==
    /\ mode = "rec" /\ rlast = None /\ procs[p] = Idle /\ passes < MaxPasses
    /\ \E stale \in BOOLEAN : model.model_last_trained = None \/ stale
    /\ procs' = [procs EXCEPT ![p] = [pc |-> "training", call |-> "retrain", args |-> None,
                                      pass |-> passes + 1]]
    /\ passes' = passes + 1
    /\ UNCHANGED <<mode, keyVars, storeVars, cacheVars, sysVars,
                   catalog, clicks, model, disk, rlast, tlast>>

\* the documents of a training pass arrive, or the index raises: the rest
\* of _train_content_model runs, and the request that awaited it goes on to
\* its end
TrainFinish(p) ==
    /\ mode = "rec" /\ rlast = None /\ procs[p].pc = "training"
    /\ \E fetched \in BOOLEAN, similar \in BOOLEAN, saved \in BOOLEAN :
        \* a step that is not reached has no outcome to choose
        /\ fetched \/ similar
        /\ (fetched /\ similar) \/ saved
        /\ LET r == TrainContentModel(model, disk, catalog, procs[p].pass, fetched,
                                      similar, saved)
           IN  /\ model' = r.model /\ disk' = r.disk
               /\ tlast' = [step |-> r.step, kept |-> r.model = model]
               /\ IF procs[p].call = "request"
                  THEN Finish(p, procs[p].args, r.model, "train", TRUE)
                  ELSE UNCHANGED <<redis, rlast>>
    /\ procs' = [procs EXCEPT ![p] = Idle]
    /\ UNCHANGED <<mode, keyVars, now, advances, cacheVars, sysVars, catalog, clicks, passes>>

NextRec == \E p \in Tasks : GetRecommendations(p) \/ RetrainModelsIfNeeded(p) \/ TrainFinish(p)

SpecRec == InitRec /\ [][NextRec]_vars

(***************************************************************************)
(* Claims on the recommendation service. In a state where the request has  *)
(* ended, model is the model the request read: nothing runs after it.      *)
(***************************************************************************)
\* the request ended with a list that a strategy computed for it
Computed(strategy) ==
    /\ rlast # None /\ ~rlast.cached
    /\ rlast.args.strategy = strategy

\* what the three strategies gave to the hybrid of the request that ended
ContentPart ==
    IF Truthy(rlast.args.item_id)
    THEN ContentBasedRecommendations(model, catalog, rlast.args, rlast.check, rlast.ok).v
    ELSE <<>>
CollaborativePart ==
    IF Truthy(rlast.args.user_id)
    THEN CollaborativeFilteringRecommendations(
             clicks, catalog, rlast.args.user_id, rlast.args.item_type, rlast.args.game_id,
             rlast.args.limit, rlast.ok.popular, rlast.ok.user, rlast.ok.similar,
             rlast.ok.similar).recs.v
    ELSE <<>>
PopularityPart ==
    PopularityBasedRecommendations(catalog, rlast.args.item_type, rlast.args.game_id,
                                   rlast.args.limit, rlast.ok.popular).v

\* ten times the score an id has in the list of one strategy, 0 when the
\* list does not hold it
PartScore(recs, key, id) ==
    LET at == {i \in 1..Len(recs) : recs[i].id = id}
    IN  IF at = {} THEN 0 ELSE ScoreGet(recs[CHOOSE i \in at : \A j \in at : i <= j], key)

NoDuplicates(seq) == \A i, j \in 1..Len(seq) : seq[i] = seq[j] => i = j

C12_HybridMergesTheOtherStrategies ==
    (Computed(S_hybrid) /\ rlast.check = "raise" /\ rlast.ok = AllAnswered) =>
        rlast.result = HybridMerge(<<>>, CollaborativePart, PopularityPart, rlast.args.limit)

\* no index query that the request made was answered, and the service holds
\* no feature table
IndexDown ==
    /\ \A o \in AnswersFor(rlast.args, rlast.check) :
           \A f \in DOMAIN o : rlast.ok[f] => o[f]
    /\ model.item_features = None

\* C13: get_recommendations returns a list whatever the strategy and
\* whichever index queries, cache calls and model steps fail, and the list
\* is empty when the catalog is empty, or when the index answers nothing and
\* there is no feature table in memory
C13_NeverPropagatesAnError ==
    rlast # None =>
        /\ rlast.result.t = "recs"
        /\ (~rlast.cached /\ (catalog = <<>> \/ IndexDown)) => rlast.result.v = <<>>

\* the strategy raised, the popularity query of the except branch failed
\* too, and the request returned the empty list
C13_Witness ==
    /\ rlast # None /\ rlast.check = "raise" /\ ~rlast.ok.fallback
    /\ catalog # <<>>
    /\ rlast.result = Recs(<<>>)

\* the list the popularity strategy gives for the arguments of the request
\* that ended, its index query answered or not
PopularityResult(answered) ==
    PopularityBasedRecommendations(catalog, rlast.args.item_type, rlast.args.game_id,
                                   rlast.args.limit, answered)

\* the collaborative request that ended had no user id, or found no clicks
\* of the user
NoHistory ==
    \/ ~Truthy(rlast.args.user_id)
    \/ GetUserInteractions(clicks, rlast.args.user_id.v, rlast.ok.user) = <<>>

\* C14: a content request whose seed is not in the feature table, and a
\* collaborative request with no user id or no click history, return the
\* list of the popularity strategy for the same item_type, game_id and
\* limit; a popularity request returns the list of the popularity strategy
C14_FallbackIsThePopularityResult ==
    /\ (Computed(S_content) /\ rlast.seed = "absent") =>
           rlast.result = PopularityResult(IF rlast.check = "raise" THEN rlast.ok.fallback
                                           ELSE rlast.ok.content)
    /\ (Computed(S_collaborative) /\ NoHistory) =>
           rlast.result = PopularityResult(rlast.ok.popular)
    /\ Computed(S_popularity) => rlast.result = PopularityResult(rlast.ok.popular)

\* a content request whose seed the trained feature table does not hold was
\* answered with popular items
C14_Witness ==
    /\ Computed(S_content) /\ rlast.seed = "absent" /\ rlast.check = "train"
    /\ rlast.result.v # <<>>
    /\ \A k \in 1..Len(rlast.result.v) : rlast.result.v[k].reason = "Popular item"

\* C15: the list a content request gets from the ranking of a seed that the
\* feature table holds never has the seed in it, has only items of the type
\* and, when one is given, of the game asked for, has at most limit entries
\* and is in non-increasing similarity order
C15_ContentResultExcludesSeed ==
    (Computed(S_content) /\ rlast.seed = "present" /\ rlast.check # "raise") =>
        LET recs == rlast.result.v
        IN  /\ \A k \in 1..Len(recs) :
                   /\ recs[k].id # rlast.args.item_id.v
                   /\ recs[k].type = rlast.args.item_type
                   /\ Truthy(rlast.args.game_id) => recs[k].game_id = rlast.args.game_id
            /\ Len(recs) <= rlast.args.limit
            /\ \A k \in 1..(Len(recs) - 1) :
                   recs[k].similarity_score >= recs[k + 1].similarity_score

\* what does hold of the ranking: type, game, length and order
C15_FiltersLimitAndOrder ==
    (Computed(S_content) /\ rlast.seed = "present" /\ rlast.check # "raise") =>
        LET recs == rlast.result.v
        IN  /\ \A k \in 1..Len(recs) :
                   /\ recs[k].type = rlast.args.item_type
                   /\ Truthy(rlast.args.game_id) => recs[k].game_id = rlast.args.game_id
            /\ Len(recs) <= rlast.args.limit
            /\ \A k \in 1..(Len(recs) - 1) :
                   recs[k].similarity_score >= recs[k + 1].similarity_score

\* C16: a popularity request with item_type, game_id = G and limit = N gets
\* at most N entries, each of game G and labelled with item_type, in
\* non-increasing popularity_score order, and the empty list when the index
\* query raises
C16_PopularityResultShape ==
    Computed(S_popularity) =>
        LET recs == rlast.result.v
        IN  /\ Len(recs) <= rlast.args.limit
            /\ \A k \in 1..Len(recs) :
                   /\ Truthy(rlast.args.game_id) => recs[k].game_id = rlast.args.game_id
                   /\ recs[k].type = rlast.args.item_type
                   /\ "popularity_score" \in recs[k].keys
            /\ \A k \in 1..(Len(recs) - 1) :
                   recs[k].popularity_score >= recs[k + 1].popularity_score
            /\ ~rlast.ok.popular => recs = <<>>

\* a popularity request for the markers of game g1 got two of them, the
\* more popular one first
C16_Witness ==
    /\ Computed(S_popularity) /\ rlast.args.game_id = PyStr(G1)
    /\ Len(rlast.result.v) = 2
    /\ rlast.result.v[1].popularity_score > rlast.result.v[2].popularity_score

(***************************************************************************)
(* _find_similar_users and the collaborative strategy over click tables:   *)
(* user u1 asks, with at least one click; u2 and u3 clicked any of the     *)
(* items, or nothing.                                                      *)
(***************************************************************************)
ClickTables ==
    {U1 :> a @@ U2 :> b @@ U3 :> c :
        a \in SUBSET {M1, M2, M3, G1} \ {{}}, b \in SUBSET {M1, M2, M3}, c \in SUBSET {M1, M2, G1}}

InitSimilar ==
    /\ mode = "similar"
    /\ catalog = CatalogFull /\ clicks \in ClickTables /\ model = NoModel /\ disk = None
    /\ procs = <<>> /\ rlast = None /\ tlast = None /\ passes = 0
    /\ inp = None /\ out = None /\ hashSeed = 0
    /\ redis = NoKeys /\ now = 0 /\ advances = 0
    /\ cres = None /\ hist = NoKeys
    /\ es = NoKeys /\ events = 0 /\ srch = Idle /\ idx = Idle
    /\ sres = None /\ ires = None /\ calls = NoCalls

\* _find_similar_users(es_client, "u1", the interactions of u1)
SimilarUsersCall ==
    /\ mode = "similar" /\ out = None
    /\ \E ok \in BOOLEAN :
        LET user_interactions == GetUserInteractions(clicks, U1, TRUE)
            user_items == {user_interactions[i].id : i \in 1..Len(user_interactions)}
        IN  out' = [sims |-> UserSimilarities(clicks, U1, user_items),
                    similar |-> FindSimilarUsers(clicks, U1, user_interactions, ok),
                    recs |-> Recs(<<>>), call |-> "_find_similar_users"]
    /\ UNCHANGED <<mode, recVars, inp, hashSeed, storeVars, cacheVars, sysVars>>

\* _collaborative_filtering_recommendations("u1", "marker", None, 2)
CollaborativeCall ==
    /\ mode = "similar" /\ out = None
    /\ \E okSimilar \in BOOLEAN :
        LET r == CollaborativeFilteringRecommendations(clicks, catalog, PyStr(U1), S_marker,
                                                       None, 2, TRUE, TRUE, okSimilar, TRUE)
        IN  out' = [sims |-> UserSimilarities(clicks, U1, clicks[U1]),
                    similar |-> r.similar, recs |-> r.recs,
                    call |-> "_collaborative_filtering_recommendations"]
    /\ UNCHANGED <<mode, recVars, inp, hashSeed, storeVars, cacheVars, sysVars>>

NextSimilar == SimilarUsersCall \/ CollaborativeCall

SpecSimilar == InitSimilar /\ [][NextSimilar]_vars

\* C17: the similarity of the click set of the requesting user with that of
\* any other user lies in [0,1]; a user below the threshold 0.7 is not among
\* the similar users, and every item of the collaborative output was
\* clicked by one of the similar users
C17_SimilarityBoundedAndThresholded ==
    out # None =>
        /\ \A i \in 1..Len(out.sims) :
               0 <= out.sims[i].num /\ out.sims[i].num <= out.sims[i].den /\ out.sims[i].den > 0
        /\ \A i \in 1..Len(out.similar) : AtLeastThreshold(out.similar[i])
        /\ \A k \in 1..Len(out.recs.v) :
               \E i \in 1..Len(out.similar) : out.recs.v[k].id \in clicks[out.similar[i].user]

\* u1 clicked three items; one of the others shares two of them (2/3, below
\* the threshold) and is left out, the other shares all three and is kept
C17_Witness ==
    /\ out # None /\ Len(out.sims) = 2 /\ Len(out.similar) = 1
    /\ \E i \in 1..2 : out.sims[i].num = 2 /\ out.sims[i].den = 3
    /\ out.similar[1].num = 3 /\ out.similar[1].den = 3

\* C18: the feature table and the similarity matrix in memory have the same
\* number of items, and a training pass that did not complete left the
\* feature table, the matrix, the vectoriser and the trained-at time as they
\* were
C18_ModelWholeOrUntouched ==
    /\ model.item_features # None =>
           /\ model.content_similarity_matrix # None
           /\ Len(model.content_similarity_matrix.v) = Len(model.item_features.v)
    /\ (tlast # None /\ tlast.step # "done") => tlast.kept

\* C19: at most one training pass is in flight at any time
C19_OneTrainingPassInFlight ==
    mode = "rec" => Cardinality({p \in Tasks : procs[p].pc = "training"}) <= 1

\* C20: no request waits for a training pass before it is answered; a
\* content request that finds no trained model gets the list of the
\* popularity strategy
C20_RequestsNeverWaitForTraining ==
    (rlast # None /\ ~rlast.cached) =>
        /\ ~rlast.waited
        /\ (rlast.args.strategy = S_content /\ rlast.check = "train") =>
               rlast.result = PopularityResult(rlast.ok.content)

(***************************************************************************)
(* Claims on the search request and its analytics                          *)
(***************************************************************************)
\* C21: while track_search runs for a request that missed the cache, the
\* response of the request has already been returned to the caller
C21_ResponseReturnedBeforeTracking ==
    (mode = "api" /\ srch.pc = "track") => (sres # None /\ sres.request = srch.request)

(***************************************************************************)
(* The typed cache methods of CacheService and its invalidation methods:   *)
(* entries are stored, a group is invalidated, entries are read back.      *)
(* inp holds the groups whose invalidation returned, Redis answering, with *)
(* nothing stored in the group since.                                      *)
(***************************************************************************)
S_trending == <<"t", "r", "e", "n", "d", "i", "n", "g">>
S_queries == <<"q", "u", "e", "r", "i", "e", "s">>
S_24h == <<"2", "4", "h">>

\* recommendations_key(user_id, item_id, item_type, strategy)
BuilderRecommendationsKey(user_id, item_id, item_type, strategy) ==
    Join(<<":">>, <<S_ritchermap, S_recommendations,
                    IF Truthy(user_id) THEN user_id.v ELSE S_anon,
                    IF Truthy(item_id) THEN item_id.v ELSE S_none, item_type, strategy>>)

\* trending_key(data_type, time_period, item_type)
TrendingKey(data_type, time_period, item_type) ==
    Join(<<":">>, <<S_ritchermap, S_trending, data_type, time_period,
                    IF Truthy(item_type) THEN item_type.v ELSE S_all>>)

\* the patterns of invalidate_search_caches(query, game_id)
SearchCachePatterns(query, game_id) ==
    <<S_search \o <<":", "*">>>>
    \o (IF Truthy(query)
        THEN <<S_search \o <<":", "*">> \o Md5Hex8(query.v) \o <<"*">>>> ELSE <<>>)
    \o (IF Truthy(game_id)
        THEN <<<<"*", "g", "a", "m", "e", ":">> \o game_id.v \o <<"*">>>> ELSE <<>>)

\* the patterns of invalidate_recommendation_caches(user_id, item_id)
RecommendationCachePatterns(user_id, item_id) ==
    <<S_recommendations \o <<":", "*">>>>
    \o (IF Truthy(user_id)
        THEN <<S_recommendations \o <<":", "*">> \o user_id.v \o <<"*">>>> ELSE <<>>)
    \o (IF Truthy(item_id)
        THEN <<S_recommendations \o <<":", "*">> \o item_id.v \o <<"*">>>> ELSE <<>>)

\* the pattern of invalidate_trending_caches()
TrendingCachePatterns == <<S_trending \o <<":", "*">>>>

\* for pattern in patterns: total_deleted += await self.delete_pattern(pattern)
RECURSIVE InvalidateCaches(_, _, _)
InvalidateCaches(store, patterns, ok) ==
    IF patterns = <<>> THEN [store |-> store, ret |-> 0]
    ELSE LET r == CacheServiceDeletePattern(store, Head(patterns), ok, ok)
             rest == InvalidateCaches(r.store, Tail(patterns), ok)
         IN  [store |-> rest.store, ret |-> r.ret + rest.ret]

\* the keys the typed methods are called for
TypedKeys(group) ==
    CASE group = "search" ->
             {SearchResultsKey(PyStr(q), f, S_relevance, 1, 20) :
                 q \in {S_ab}, f \in {None, PyDict(<< <<S_tags, PyList(<<PyStr(<<"a">>)>>)>> >>)}}
      [] group = "recommendations" ->
             {BuilderRecommendationsKey(u, i, S_marker, S_hybrid) :
                 u \in {None, PyStr(U1)}, i \in {None}}
      [] group = "trending" ->
             {TrendingKey(S_queries, S_24h, t) : t \in {None}}

Groups == {"search", "recommendations", "trending"}

InitInval ==
    /\ mode = "inval"
    /\ RecIdle
    /\ inp = {} /\ out = None /\ hashSeed = 0
    /\ redis = NoKeys /\ now = 0 /\ advances = 0
    /\ cres = None /\ hist = NoKeys
    /\ es = NoKeys /\ events = 0 /\ srch = Idle /\ idx = Idle
    /\ sres = None /\ ires = None /\ calls = NoCalls

\* cache_search_results, cache_recommendations, cache_trending_data
CacheTyped ==
    /\ mode = "inval"
    /\ \E group \in Groups, ok \in BOOLEAN :
        \E key \in TypedKeys(group) :
            /\ redis' = CacheServiceSet(redis, now, key, PyStr(<<"x">>), None, group, ok).store
            /\ cres' = [op |-> "cache", group |-> group, key |-> <<>>, ret |-> None,
                        invalidated |-> FALSE]
            /\ inp' = inp \ {group}
    /\ UNCHANGED <<mode, recVars, out, hashSeed, now, advances, hist, sysVars>>

\* get_cached_search_results, get_cached_recommendations,
\* get_cached_trending_data
GetCachedTyped ==
    /\ mode = "inval"
    /\ \E group \in Groups, ok \in BOOLEAN :
        \E key \in TypedKeys(group) :
            cres' = [op |-> "get", group |-> group, key |-> key,
                     ret |-> CacheServiceGet(redis, key, ok), invalidated |-> group \in inp]
    /\ UNCHANGED <<mode, recVars, keyVars, storeVars, hist, sysVars>>

\* the invalidation of one group returns
Invalidate(group, patterns) ==
    /\ mode = "inval"
    /\ \E ok \in BOOLEAN :
        LET r == InvalidateCaches(redis, patterns, ok)
        IN  /\ redis' = r.store
            /\ cres' = [op |-> "invalidate", group |-> group, key |-> <<>>,
                        ret |-> PyInt(r.ret), invalidated |-> ok]
            /\ inp' = IF ok THEN inp \cup {group} ELSE inp
    /\ UNCHANGED <<mode, recVars, out, hashSeed, now, advances, hist, sysVars>>

\* invalidate_search_caches(query, game_id)
InvalidateSearchCaches ==
    \E query \in {None, PyStr(S_ab)}, game_id \in {None, PyStr(S_1)} :
        Invalidate("search", SearchCachePatterns(query, game_id))

\* invalidate_recommendation_caches(user_id, item_id)
InvalidateRecommendationCaches ==
    \E user_id \in {None, PyStr(U1)}, item_id \in {None, PyStr(M1)} :
        Invalidate("recommendations", RecommendationCachePatterns(user_id, item_id))

\* invalidate_trending_caches()
InvalidateTrendingCaches == Invalidate("trending", TrendingCachePatterns)

NextInval ==
    \/ CacheTyped \/ GetCachedTyped
    \/ InvalidateSearchCaches \/ InvalidateRecommendationCaches \/ InvalidateTrendingCaches

SpecInval == InitInval /\ [][NextInval]_vars

\* C22: once the invalidation of a group has returned, the get method of the
\* group misses for every entry stored before it
C22_InvalidatedEntriesMiss ==
    (cres # None /\ cres.op = "get" /\ cres.invalidated) => cres.ret = None

C23_Step ==
    /\ (srch.pc \in {"idle", "get", "query"} /\ srch' # srch)
           => (redis' = redis /\ events' = events /\ hist' = hist)
    /\ (srch.pc = "query" /\ srch' = Idle)
           => (sres'.status = 500 /\ sres'.response = None)

\* C23: a search that fails while it builds or runs the query is answered
\* with the internal error, and no step of it, from the entry to the failure,
\* writes a cache entry, a SearchEvent or a counter
C23_FailedSearchWritesNothing == [][C23_Step]_vars

\* a search has failed because the index did not answer the query
C23_Witness ==
    /\ mode = "sys" /\ sres # None /\ sres.status = 500 /\ ~sres.answered
    /\ redis # NoKeys

\* C24: after a training pass that ran to its end the similarity matrix is
\* square over the items of the feature table, symmetric, 1.0 (here 10) on
\* the diagonal and between 0 and 1.0 everywhere
C24_SimilarityMatrixShape ==
    (mode = "rec" /\ tlast # None /\ tlast.step = "done") =>
        LET n == Len(model.item_features.v)
            sim == model.content_similarity_matrix.v
        IN  /\ Len(sim) = n
            /\ \A i \in 1..n :
                /\ Len(sim[i]) = n
                /\ sim[i][i] = 10
                /\ \A j \in 1..n : sim[i][j] = sim[j][i] /\ sim[i][j] \in 0..10

\* the requests the endpoints pass to search()
EndpointRequests == {GetSearchRequest(params) : params \in GetParams} \cup PostBodies

\* what the index answers to the request now
FreshAnswer(request) ==
    Answer(ProcessSearchResults(EsSearch(es, SearchIndices(request.search_type),
                                         BuildSearchQuery(request), 0), request))

\* C25: once the invalidation that follows a catalog write has completed,
\* the store having answered it, every search response in the cache is the
\* one the written index gives
C25_NoPreWriteResponseAfterInvalidation ==
    (/\ mode = "sys" /\ ires # None /\ ires.ok /\ ~ires.unanswered
     /\ ires.op = "bulk_index_markers" => ires.indexed > 0)
        => \A request \in EndpointRequests :
               LET key == GenerateCacheKey(hashSeed, request)
               IN  key \in SearchEntries(redis)
                       => Answer(redis[key].val.data.v) = FreshAnswer(request)

\* the seed of the content request that ended is the first entry of its
\* sorted row, the one the ranking drops
SeedRanksFirst ==
    LET features == model.item_features.v
        at == {i \in 1..Len(features) : features[i].id = rlast.args.item_id.v}
        seed == CHOOSE i \in at : \A j \in at : i <= j
        row == model.content_similarity_matrix.v[seed]
    IN  \A i \in 1..Len(row) : row[i] < row[seed] \/ (row[i] = row[seed] /\ i >= seed)

\* C26: an eligible item (not the seed, of the type and game asked for) that
\* the content ranking leaves out is left out because the list is full of
\* items at least as similar, here when the dropped first entry is the seed
C26_ContentResultIsTopOfEligible ==
    (/\ Computed(S_content) /\ rlast.seed = "present" /\ rlast.check # "raise"
     /\ model.content_similarity_matrix # None
     /\ Len(model.content_similarity_matrix.v) = Len(model.item_features.v)
     /\ SeedRanksFirst) =>
        LET features == model.item_features.v
            at == {i \in 1..Len(features) : features[i].id = rlast.args.item_id.v}
            seed == CHOOSE i \in at : \A j \in at : i <= j
            row == model.content_similarity_matrix.v[seed]
            recs == rlast.result.v
            eligible(i) == /\ i # seed
                           /\ features[i].type = rlast.args.item_type
                           /\ Truthy(rlast.args.game_id)
                                  => features[i].game_id = rlast.args.game_id
        IN  \A i \in 1..Len(features) :
                (eligible(i) /\ \A k \in 1..Len(recs) : recs[k].id # features[i].id)
                    => /\ Len(recs) = rlast.args.limit
                       /\ \A k \in 1..Len(recs) : recs[k].similarity_score >= row[i]

\* the items of the catalog of one type that a similar user of the call
\* clicked and u1 did not
NeighbourItems(item_type) ==
    {id \in UNION {clicks[out.similar[n].user] : n \in 1..Len(out.similar)} \ clicks[U1] :
        \E d \in 1..Len(catalog) :
            catalog[d].id = id /\ Rstrip(catalog[d].index, "s") = item_type}

\* C27: for a user with clicks the collaborative strategy returns the
\* markers that a similar user clicked and the user did not: all of them
\* when they are at most limit (2), limit of them otherwise, each once and in
\* non-increasing score order
C27_CollaborativeOutputIsNeighbourItems ==
    (mode = "similar" /\ out # None /\ out.call = "_collaborative_filtering_recommendations") =>
        LET recs == out.recs.v
            ids == {recs[k].id : k \in 1..Len(recs)}
        IN  /\ ids \subseteq NeighbourItems(S_marker)
            /\ Len(recs) = Cardinality(ids)
            /\ Len(recs) = (IF Cardinality(NeighbourItems(S_marker)) < 2
                            THEN Cardinality(NeighbourItems(S_marker)) ELSE 2)
            /\ \A k \in 1..(Len(recs) - 1) :
                   recs[k].recommendation_score >= recs[k + 1].recommendation_score

\* C28: the similarity computed for another user is the Jaccard ratio of
\* the two click sets, |A n B| / |A u B|
C28_SimilarityIsJaccard ==
    (mode = "similar" /\ out # None) =>
        \A i \in 1..Len(out.sims) :
            LET A == clicks[U1]
                B == clicks[out.sims[i].user]
            IN  out.sims[i].num * Cardinality(A \cup B)
                    = Cardinality(A \cap B) * out.sims[i].den

(***************************************************************************)
(* Click analytics: track_search and track_click write the events of the   *)
(* search_analytics index, _get_user_interactions, get_search_metrics,     *)
(* get_query_performance and get_popular_items read them. Here es is the   *)
(* list of the documents of that index, each a record of its fields.       *)
(***************************************************************************)
MaxAnalyticsEvents == 2
S_item_id == <<"i", "t", "e", "m", "_", "i", "d">>
S_click_count == <<"c", "l", "i", "c", "k", "_", "c", "o", "u", "n", "t">>

\* SearchAnalyticsEvent(...).dict()
SearchAnalyticsEvent(query, user_id, result_count, t) ==
    [query |-> PyStr(query), normalized_query |-> PyStr(NormalizeQuery(query)),
     user_id |-> user_id, game_id |-> None, search_type |-> PyStr(S_all),
     result_count |-> PyInt(result_count), filters_applied |-> None,
     timestamp |-> PyDatetime(t), ip_address |-> None, user_agent |-> None,
     session_id |-> None]

\* ClickAnalyticsEvent(...).dict()
ClickAnalyticsEvent(query, result_id, result_type, click_position, user_id, t) ==
    [query |-> PyStr(query), result_id |-> PyStr(result_id),
     result_type |-> PyStr(result_type), click_position |-> PyInt(click_position),
     user_id |-> user_id, timestamp |-> PyDatetime(t), session_id |-> None]

\* the clause {"exists": {"field": field}} on a document
Exists(doc, field) == field \in DOMAIN doc /\ doc[field] # None

\* the documents of the index that a filter keeps
Matching(docs, filter(_)) == SelectSeq(docs, filter)

\* _update_click_counters(query, result_id, position): the keyspace afterwards
UpdateClickCounters(store, t, result_id, position, ok) ==
    LET count_key == <<"c", "l", "i", "c", "k", "s", ":", "c", "o", "u", "n", "t", ":">>
                     \o Today(t)
        result_key == <<"c", "l", "i", "c", "k", "s", ":", "r", "e", "s", "u", "l", "t", ":">>
                      \o result_id
        position_key == <<"c", "l", "i", "c", "k", "s", ":", "p", "o", "s", "i", "t", "i",
                          "o", "n", ":">> \o IntStr(position) \o <<":">> \o Today(t)
        s1 == RedisClientIncrement(store, t, count_key, 1, ok).store
        s2 == RedisClientIncrement(s1, t, result_key, 1, ok).store
    IN  RedisClientIncrement(s2, t, position_key, 1, ok).store

\* the clicks that the aggregation of _get_user_interactions and of
\* _find_similar_users sees: per user_id the values of clicked_result_id
ClickTableOf(docs) ==
    LET clicked == {i \in 1..Len(docs) :
                       Exists(docs[i], "clicked_result_id") /\ Exists(docs[i], "user_id")}
    IN  [u \in {docs[i].user_id.v : i \in clicked} |->
            {docs[i].clicked_result_id.v : i \in {j \in clicked : docs[j].user_id.v = u}}]

\* get_search_metrics(time_period, game_id=None): the counts of the response
GetSearchMetricsOf(docs, ok) ==
    LET total_searches == Len(Matching(docs, LAMBDA d : Exists(d, "query")))
        total_clicks == Len(Matching(docs, LAMBDA d : Exists(d, "clicked_result_id")))
        \* total_clicks / total_searches as a fraction, 0 as 0/1
        click_through_rate == IF total_searches > 0
                              THEN [num |-> total_clicks, den |-> total_searches]
                              ELSE [num |-> 0, den |-> 1]
    IN  IF ~ok THEN [total_searches |-> 0, total_clicks |-> 0,
                     click_through_rate |-> [num |-> 0, den |-> 1]]
        ELSE [total_searches |-> total_searches, total_clicks |-> total_clicks,
              click_through_rate |-> click_through_rate]

\* get_query_performance(query): search_count and click_count
GetQueryPerformanceOf(docs, query, ok) ==
    LET normalized_query == NormalizeQuery(query)
        hits == Matching(docs, LAMBDA d : /\ Exists(d, "normalized_query")
                                          /\ d.normalized_query.v = normalized_query)
    IN  IF ~ok THEN [search_count |-> 0, click_count |-> 0]
        ELSE [search_count |-> Len(Matching(hits, LAMBDA d : Exists(d, "query"))),
              click_count |-> Len(Matching(hits, LAMBDA d : Exists(d, "clicked_result_id")))]

\* get_popular_items(item_type, "24h", limit): [store, ret, cached]; the
\* cached list is returned, or the clicked ids are counted, the list is cut
\* to limit and cached for 10 minutes
GetPopularItemsOf(store, docs, t, item_type, limit, okGet, ok, okSet) ==
    LET cache_key == S_trending \o <<":", "i", "t", "e", "m", "s", ":">> \o item_type
                     \o <<":">> \o S_24h \o <<":">> \o IntStr(limit)
        cached == RedisClientGet(store, cache_key, okGet)
        hits == Matching(docs, LAMBDA d : /\ Exists(d, "clicked_result_id")
                                          /\ item_type # S_all => d.result_type.v = item_type)
        ids == ListOfSet({hits[i].clicked_result_id.v : i \in 1..Len(hits)})
        count(id) == Cardinality({i \in 1..Len(hits) : hits[i].clicked_result_id.v = id})
        buckets == Take(SortDesc([k \in 1..Len(ids) |->
                                     <<count(ids[k]),
                                       PyDict(<< <<S_item_id, PyStr(ids[k])>>,
                                                 <<S_click_count, PyInt(count(ids[k]))>> >>)>>]),
                        2 * limit)
        popular == PyList(Take(buckets, limit))
    IN  IF Truthy(cached) THEN [store |-> store, ret |-> cached, cached |-> TRUE]
        ELSE IF ~ok THEN [store |-> store, ret |-> PyList(<<>>), cached |-> FALSE]
        ELSE [store |-> RedisClientSet(store, t, cache_key, popular, PyInt(600), okSet).store,
              ret |-> popular, cached |-> FALSE]

InitClicks ==
    /\ mode = "clicks"
    /\ RecIdle
    /\ inp = None /\ out = None /\ hashSeed = 0
    /\ redis = NoKeys /\ now = 0 /\ advances = 0
    /\ cres = None /\ hist = NoKeys
    /\ es = <<>> /\ events = 0 /\ srch = Idle /\ idx = Idle
    /\ sres = None /\ ires = None /\ calls = NoCalls

\* the tracking calls so far met a store that did not answer
StoreFailed(h, okEvent, okStore) ==
    IF okEvent /\ ~okStore THEN Put(h, "store failed", TRUE) ELSE h

\* track_search(query, result_count=result_count, search_type="all")
ClicksTrackSearch ==
    /\ mode = "clicks" /\ Len(es) < MaxAnalyticsEvents
    /\ \E query \in {S_ab, <<"A", "b">>, <<"b", "b">>}, result_count \in {0, 1},
          okEvent \in BOOLEAN, okStore \in BOOLEAN :
        LET r == TrackSearch(redis, events, now, query, result_count, okEvent, okStore, okStore)
        IN  /\ redis' = r.store /\ events' = r.events
            /\ es' = IF okEvent
                     THEN Append(es, SearchAnalyticsEvent(query, None, result_count, now))
                     ELSE es
            /\ cres' = [op |-> "track_search", ret |-> r.ret]
            /\ hist' = StoreFailed(hist, okEvent, okStore)
    /\ UNCHANGED <<mode, recVars, keyVars, now, advances, srch, idx, sres, ires, calls>>

\* track_click(query, result_id, "marker", click_position, user_id)
TrackClick ==
    /\ mode = "clicks" /\ Len(es) < MaxAnalyticsEvents
    /\ \E query \in {S_ab, <<"A", "b">>}, result_id \in {M1, M2}, user_id \in {None, PyStr(U1)},
          click_position \in {1, 2}, okEvent \in BOOLEAN, okStore \in BOOLEAN :
        /\ es' = IF okEvent
                 THEN Append(es, ClickAnalyticsEvent(query, result_id, S_marker, click_position,
                                                     user_id, now))
                 ELSE es
        /\ redis' = IF okEvent
                    THEN UpdateClickCounters(redis, now, result_id, click_position, okStore)
                    ELSE redis
        /\ cres' = [op |-> "track_click", ret |-> okEvent]
        /\ hist' = StoreFailed(hist, okEvent, okStore)
    /\ UNCHANGED <<mode, recVars, keyVars, now, advances, events, srch, idx, sres, ires, calls>>

\* _get_user_interactions(es_client, "u1")
ClicksGetUserInteractions ==
    /\ mode = "clicks"
    /\ \E ok \in BOOLEAN :
        out' = [call |-> "_get_user_interactions", answered |-> ok, cached |-> FALSE,
                ret |-> GetUserInteractions(ClickTableOf(es), U1, ok)]
    /\ UNCHANGED <<mode, recVars, inp, hashSeed, storeVars, cacheVars, sysVars>>

\* get_search_metrics("24h")
GetSearchMetrics ==
    /\ mode = "clicks"
    /\ \E ok \in BOOLEAN :
        out' = [call |-> "get_search_metrics", answered |-> ok, cached |-> FALSE,
                ret |-> GetSearchMetricsOf(es, ok)]
    /\ UNCHANGED <<mode, recVars, inp, hashSeed, storeVars, cacheVars, sysVars>>

\* get_query_performance("ab")
GetQueryPerformance ==
    /\ mode = "clicks"
    /\ \E ok \in BOOLEAN :
        out' = [call |-> "get_query_performance", answered |-> ok, cached |-> FALSE,
                ret |-> GetQueryPerformanceOf(es, S_ab, ok)]
    /\ UNCHANGED <<mode, recVars, inp, hashSeed, storeVars, cacheVars, sysVars>>

\* get_popular_items("marker", "24h", 10)
GetPopularItems ==
    /\ mode = "clicks"
    /\ \E okStore \in BOOLEAN, ok \in BOOLEAN :
        LET r == GetPopularItemsOf(redis, es, now, S_marker, 10, okStore, ok, okStore)
        IN  /\ redis' = r.store
            /\ out' = [call |-> "get_popular_items", answered |-> ok, cached |-> r.cached,
                       ret |-> r.ret]
    /\ UNCHANGED <<mode, recVars, inp, hashSeed, now, advances, cacheVars, sysVars>>

NextClicks ==
    \/ ClicksTrackSearch \/ TrackClick
    \/ ClicksGetUserInteractions \/ GetSearchMetrics \/ GetQueryPerformance \/ GetPopularItems

SpecClicks == InitClicks /\ [][NextClicks]_vars

\* the click events recorded so far
RecordedClicks == Matching(es, LAMBDA d : "result_id" \in DOMAIN d)

\* C29: every click that track_click recorded is among the interactions
\* read for its user, and is counted by get_search_metrics, by
\* get_query_performance for its query and by get_popular_items
C29_RecordedClicksAreRead ==
    (mode = "clicks" /\ out # None /\ out.answered /\ ~out.cached) =>
        CASE out.call = "_get_user_interactions" ->
                 \A c \in 1..Len(RecordedClicks) :
                     RecordedClicks[c].user_id = PyStr(U1)
                         => \E k \in 1..Len(out.ret) :
                                out.ret[k].id = RecordedClicks[c].result_id.v
          [] out.call = "get_search_metrics" ->
                 out.ret.total_clicks = Len(RecordedClicks)
          [] out.call = "get_query_performance" ->
                 out.ret.click_count =
                     Len(Matching(RecordedClicks,
                                  LAMBDA d : NormalizeQuery(d.query.v) = NormalizeQuery(S_ab)))
          [] out.call = "get_popular_items" ->
                 \A c \in 1..Len(RecordedClicks) :
                     \E k \in 1..Len(out.ret.v) :
                         out.ret.v[k].v[1][2] = RecordedClicks[c].result_id

\* the analytics counters and trending sorted sets of the keyspace: every
\* key that does not hold a cached search response
AnalyticsEntries(store) == [k \in DOMAIN store \ SearchEntries(store) |-> store[k]]

\* C30: the DEL of a cache invalidation that follows a catalog write leaves
\* every analytics counter and every trending sorted set as it was
C30_InvalidationKeepsAnalytics ==
    [][(idx.pc = "delete" /\ idx' # idx)
           => AnalyticsEntries(redis') = AnalyticsEntries(redis)]_vars

(***************************************************************************)
(* Requests that differ in highlight and include_suggestions, over an      *)
(* index that does not change                                              *)
(***************************************************************************)
InitFlags ==
    /\ mode = "flags"
    /\ RecIdle
    /\ inp = None /\ out = None /\ hashSeed = 0
    /\ redis = NoKeys /\ now = 0 /\ advances = 0
    /\ cres = None /\ hist = NoKeys
    /\ es = FullIndex /\ events = 0 /\ srch = Idle /\ idx = Idle
    /\ sres = None /\ ires = None /\ calls = NoCalls

\* POST /search/advanced with a body that sets the two flags
FlaggedSearch ==
    /\ mode = "flags"
    /\ \E query \in {S_ab, <<"b", "b">>}, highlight \in BOOLEAN, include_suggestions \in BOOLEAN :
        LET body == [DefaultBody EXCEPT !.query = query, !.highlight = highlight,
                                        !.include_suggestions = include_suggestions]
        IN  Enter("POST", body, body)

NextFlags ==
    \/ FlaggedSearch
    \/ SearchCacheGet \/ SearchQuery \/ SearchSuggest \/ SearchCacheSet \/ SearchTrack

SpecFlags == InitFlags /\ [][NextFlags]_vars

\* the responses search() can return to the request on a miss, the index
\* answering the query, took_ms set aside
MissResponses(request) ==
    LET search_response ==
            ProcessSearchResults(EsSearch(es, SearchIndices(request.search_type),
                                          BuildSearchQuery(request), 0), request)
    IN  IF request.include_suggestions /\ search_response.total_hits < 5
        THEN {[search_response EXCEPT !.suggestions =
                                          PyList(GetSearchSuggestions(es, request.query, ok))] :
                 ok \in BOOLEAN}
        ELSE {search_response}

\* C31: a response served from the cache is, apart from took_ms, a response
\* the request gets on a miss from the index the entry was computed from
C31_HitEqualsMiss ==
    (mode = "flags" /\ sres # None /\ sres.status = 200 /\ sres.hit # None) =>
        [sres.response EXCEPT !.took_ms = 0] \in MissResponses(sres.request)

(***************************************************************************)
(* The recommendation service over its life: lifespan() calls              *)
(* retrain_models_if_needed() once, before the service takes requests;     *)
(* then requests are served and the clock moves on.                        *)
(***************************************************************************)
MaxLifeAdvances == 2
\* timedelta(hours=24), in seconds
RetrainAge == 86400
\* the steps the clock makes
ClockSteps == {2000, RetrainAge}

\* not self.model_last_trained or now - self.model_last_trained > 24 hours
NeedsTraining(m, t) ==
    \/ m.model_last_trained = None
    \/ t - m.model_last_trained.v > RetrainAge

\* the requests made to the running service
LifeRequests == {RecArgs(S_content, None, PyStr(M2), S_marker, None, 1)}

InitLife ==
    /\ mode = "life"
    /\ catalog = CatalogFull /\ clicks = ClickTable
    /\ disk \in SavedModels
    /\ \E ok \in BOOLEAN : model = LoadModels(disk, ok)
    /\ procs = [pc |-> "startup"] /\ rlast = None /\ tlast = None /\ passes = 0
    /\ inp = None /\ out = None /\ hashSeed = 0
    /\ redis = NoKeys /\ now = 0 /\ advances = 0
    /\ cres = None /\ hist = NoKeys
    /\ es = NoKeys /\ events = 0 /\ srch = Idle /\ idx = Idle
    /\ sres = None /\ ires = None /\ calls = NoCalls

\* lifespan(): await recommendation_service.retrain_models_if_needed(), up
\* to the await of the training pass, or to the yield
LifespanRetrain ==
    /\ mode = "life" /\ procs.pc = "startup"
    /\ procs' = IF NeedsTraining(model, now)
                THEN [pc |-> "training", call |-> "retrain", args |-> None]
                ELSE [pc |-> "running"]
    /\ UNCHANGED <<mode, keyVars, storeVars, cacheVars, sysVars,
                   catalog, clicks, model, disk, rlast, tlast, passes>>

\* the rest of get_recommendations, with the time the list was computed
\* kept for the entry it wrote
LifeFinish(args, m, check) ==
    \E ok \in AnswersFor(args, check), okSet \in BOOLEAN :
        LET r == ComputeRecommendations(redis, now, m, catalog, clicks, args, check, ok, okSet)
        IN  /\ rlast' = [args |-> args, cached |-> FALSE]
            /\ redis' = r.store
            /\ hist' = IF r.store # redis
                       THEN Put(hist, RecommendationsKey(args), [computed |-> now, wr |-> now])
                       ELSE hist
            /\ cres' = None

\* get_recommendations(...) of the running service, up to its await of a
\* training pass or to its end
LifeGetRecommendations ==
    /\ mode = "life" /\ procs.pc = "running"
    /\ \E args \in LifeRequests, okGet \in BOOLEAN :
        LET key == RecommendationsKey(args)
            cached == CacheServiceGet(redis, key, okGet)
            check == IF ReadsContentModel(args) THEN ModelUnavailable(model) ELSE "none"
        IN  IF Truthy(cached)
            THEN /\ rlast' = [args |-> args, cached |-> TRUE]
                 /\ cres' = [op |-> "get_recommendations", at |-> now,
                             computed |-> hist[key].computed]
                 /\ UNCHANGED <<redis, hist, procs>>
            ELSE IF check = "train"
            THEN /\ procs' = [pc |-> "training", call |-> "request", args |-> args]
                 /\ UNCHANGED <<redis, hist, cres, rlast>>
            ELSE /\ LifeFinish(args, model, check)
                 /\ UNCHANGED procs
    /\ UNCHANGED <<mode, keyVars, now, advances, sysVars,
                   catalog, clicks, model, disk, tlast, passes>>

\* _train_content_model runs, and the call that awaited it goes on
LifeTrain ==
    /\ mode = "life" /\ procs.pc = "training"
    /\ \E fetched \in BOOLEAN, similar \in BOOLEAN, saved \in BOOLEAN :
        /\ fetched \/ similar
        /\ (fetched /\ similar) \/ saved
        /\ LET r == TrainContentModel(model, disk, catalog, now, fetched, similar, saved)
           IN  /\ model' = r.model /\ disk' = r.disk
               /\ tlast' = [step |-> r.step]
               /\ IF procs.call = "request"
                  THEN LifeFinish(procs.args, r.model, "train")
                  ELSE UNCHANGED <<redis, hist, cres, rlast>>
    /\ procs' = [pc |-> "running"]
    /\ UNCHANGED <<mode, keyVars, now, advances, sysVars, catalog, clicks, passes>>

\* time passes
LifeAdvance ==
    /\ mode = "life" /\ advances < MaxLifeAdvances
    /\ \E d \in ClockSteps :
        /\ now' = now + d
        /\ redis' = Expire(redis, now + d)
        /\ hist' = Forget(hist, Expire(redis, now + d))
    /\ advances' = advances + 1
    /\ UNCHANGED <<mode, recVars, keyVars, cres, sysVars>>

NextLife == LifespanRetrain \/ LifeGetRecommendations \/ LifeTrain \/ LifeAdvance

SpecLife == InitLife /\ [][NextLife]_vars

\* the event loop runs the service's own coroutines: lifespan() reaches its
\* yield, an awaited training pass returns (LifeTrain can always be taken
\* while a pass is awaited, so its weak fairness is that no pass is awaited
\* for ever), and the clock moves on. Nothing makes a client send a request.
SpecLifeFair ==
    /\ SpecLife
    /\ WF_vars(LifespanRetrain) /\ WF_vars(LifeAdvance)
    /\ []<>(procs.pc # "training")

\* C32: when the model of the running service is absent or older than 24
\* hours, a training pass is eventually under way
C32_StaleModelIsRetrained ==
    (mode = "life" /\ procs.pc = "running" /\ NeedsTraining(model, now))
        ~> (procs.pc = "training")

\* C36: every entry get_recommendations writes expires 1800 seconds (the
\* TTL of the recommendations cache type) after it was written, and no list
\* is served from the cache more than 1800 seconds after it was computed
C36_RecommendationsKeptHalfAnHour ==
    mode = "life" =>
        /\ \A k \in DOMAIN redis : redis[k].exp = redis[k].wr + TtlConfig("recommendations")
        /\ (cres # None => cres.at - cres.computed <= TtlConfig("recommendations"))

\* the search events recorded so far
RecordedSearches == Matching(es, LAMBDA d : "normalized_query" \in DOMAIN d)

\* the value of a counter of the keyspace, 0 for a counter that was never
\* incremented
Counter(store, key) ==
    IF key \in DOMAIN store /\ IsIntBytes(store[key].val) THEN store[key].val.data.v ELSE 0

\* the score of a member of a sorted set, 0 for a member that is not in it
Score(store, key, member) ==
    IF key \in DOMAIN store /\ \E m \in store[key].val.data : m[1] = member
    THEN (CHOOSE m \in store[key].val.data : m[1] = member)[2]
    ELSE 0

\* C33: after n searches with the same normalized query were tracked within
\* one clock hour, with the store answering every call, the score of that
\* query in the hour's trending sorted set is n
C33_TrendingScoreCountsSearches ==
    (mode = "clicks" /\ hist = NoKeys) =>
        \A q \in {S_ab, <<"b", "b">>} :
            Score(redis, <<"t", "r", "e", "n", "d", "i", "n", "g", ":", "q", "u", "e", "r", "i",
                           "e", "s", ":">> \o CurrentHour(now), q)
                = Len(Matching(RecordedSearches, LAMBDA d : d.normalized_query.v = q))

\* C34: get_search_metrics returns as total_searches the number of search
\* events (click events are not counted) and as click_through_rate the
\* number of click events divided by total_searches, 0 without searches
C34_MetricsCountSearchesAndClicks ==
    (mode = "clicks" /\ out # None /\ out.call = "get_search_metrics" /\ out.answered) =>
        /\ out.ret.total_searches = Len(RecordedSearches)
        /\ IF Len(RecordedSearches) = 0
           THEN out.ret.click_through_rate.num = 0
           ELSE out.ret.click_through_rate.num * Len(RecordedSearches)
                    = Len(RecordedClicks) * out.ret.click_through_rate.den

\* C40: no counter is ahead of the events of the log it counts, and while
\* the store answered every call the daily search counter is the number of
\* tracked searches, the daily zero-result counter the number of those with
\* result_count 0, each per-query counter the number of searches with that
\* normalized query, and each per-item and per-position click counter the
\* number of matching clicks
C40_CountersMatchEvents ==
    mode = "clicks" =>
        LET day == Today(now)
            search(suffix) == S_search \o <<":">> \o suffix
            click(suffix) == <<"c", "l", "i", "c", "k", "s", ":">> \o suffix
            counted ==
                {<<search(<<"c", "o", "u", "n", "t", ":">> \o day), Len(RecordedSearches)>>,
                 <<search(<<"z", "e", "r", "o", "_", "r", "e", "s", "u", "l", "t", "s", ":">>
                          \o day),
                   Len(Matching(RecordedSearches, LAMBDA d : d.result_count.v = 0))>>,
                 <<click(<<"c", "o", "u", "n", "t", ":">> \o day), Len(RecordedClicks)>>}
                \cup {<<search(<<"q", "u", "e", "r", "y", ":">> \o Md5Hex8(q)),
                        Len(Matching(RecordedSearches, LAMBDA d : d.normalized_query.v = q))>> :
                         q \in {S_ab, <<"b", "b">>}}
                \cup {<<click(<<"r", "e", "s", "u", "l", "t", ":">> \o id),
                        Len(Matching(RecordedClicks, LAMBDA d : d.result_id.v = id))>> :
                         id \in {M1, M2}}
                \cup {<<click(<<"p", "o", "s", "i", "t", "i", "o", "n", ":">> \o IntStr(p)
                              \o <<":">> \o day),
                        Len(Matching(RecordedClicks, LAMBDA d : d.click_position.v = p))>> :
                         p \in {1, 2}}
        IN  \A c \in counted :
                /\ Counter(redis, c[1]) <= c[2]
                /\ hist = NoKeys => Counter(redis, c[1]) = c[2]

\* a zero-result search and a click were tracked and counted
C40_Witness ==
    /\ mode = "clicks" /\ hist = NoKeys
    /\ Len(RecordedClicks) = 1
    /\ \E i \in 1..Len(RecordedSearches) : RecordedSearches[i].result_count.v = 0
    /\ Counter(redis, S_search \o <<":", "z", "e", "r", "o", "_", "r", "e", "s", "u", "l", "t",
                                    "s", ":">> \o Today(now)) = 1

\* the calls that write one document and invalidate the caches afterwards
SingleWrites == {"index_marker", "index_game", "index_category", "delete_document"}

\* what C35 says of one step of an indexing call
C35_Step ==
    \* the invalidation begins only when the write to the index succeeded
    /\ (idx.pc = "idle" /\ idx'.pc # "idle" /\ idx'.op \in SingleWrites) => idx'.ok
    \* no step of the invalidation, answered or not, changes the result
    /\ (idx.pc # "idle" /\ idx.op \in SingleWrites) =>
           IF idx'.pc # "idle" THEN idx'.ok = idx.ok
           ELSE ires' # None /\ ires'.op = idx.op /\ ires'.ok = idx.ok
    \* a call whose write failed returns False and leaves the keyspace alone
    /\ (idx.pc = "idle" /\ idx'.pc = "idle" /\ calls'.writes # calls.writes
            /\ ires'.op \in SingleWrites) =>
           (~ires'.ok /\ redis' = redis /\ es' = es)
    \* keys are deleted only by the invalidation of a call
    /\ (mode = "sys" /\ idx.pc = "idle") => DOMAIN redis \subseteq DOMAIN redis'

\* C35: index_marker, index_game, index_category and delete_document attempt
\* the invalidation only after the index write succeeded, a failing
\* invalidation does not change their result, and a failed write triggers no
\* invalidation and returns False
C35_InvalidationFollowsWrite == [][C35_Step]_vars

\* a document was written, the invalidation of the search caches went
\* unanswered, and the call returned True
C35_Witness ==
    /\ mode = "sys" /\ ires # None /\ ires.op \in SingleWrites
    /\ ires.ok /\ ires.unanswered

\* C37: a GET /search that supplies all four of north, south, east and west
\* queries the index with a geo bounding-box clause of exactly those four
\* values, whatever the values (0 included) and the other filters
C37_FourBoundsGiveGeoClause ==
    (mode = "api" /\ sres # None /\ sres.via = "GET"
         /\ BoundsSupplied(sres.via, sres.input) = 4) =>
        LET es_query == BuildSearchQuery(sres.request)
        IN  /\ es_query # Raise
            /\ \E i \in 1..Len(es_query.filter) :
                   es_query.filter[i] =
                       [kind |-> "geo_bounding_box",
                        top_left |-> [lat |-> sres.input.north, lon |-> sres.input.west],
                        bottom_right |-> [lat |-> sres.input.south, lon |-> sres.input.east]]

\* what C38 says of the step that serves a request from the cache
C38_Step ==
    (srch.pc = "get" /\ sres' # None /\ sres'.status = 200 /\ sres'.hit # None) =>
        LET stored == Deserialize(redis[srch.cache_key].val).v
        IN  \* the stored response, with took_ms computed anew
            /\ sres'.response = [stored EXCEPT !.took_ms = (now - srch.start_time) * 1000]
            \* without a query to the index: the request has ended
            /\ srch' = Idle
            \* nothing is written to the cache, no SearchEvent and no counter
            /\ redis' = redis /\ hist' = hist /\ events' = events /\ es' = es

\* C38: on a cache hit search returns the stored hits, total_hits, page,
\* page_size, total_pages, suggestions and facets with only took_ms computed
\* anew, queries no index, writes nothing to the cache and records no
\* SearchEvent and no counter update
C38_HitOnlyReads == [][C38_Step]_vars

\* a request was served from the cache the hits that an earlier request had
\* found and recorded
C38_Witness ==
    /\ mode = "sys" /\ sres # None /\ sres.status = 200 /\ sres.hit # None
    /\ sres.response.total_hits > 0 /\ events = 1

\* the elements of a list of a filter, as a set; no element for None
Elements(l) == IF l = None THEN {} ELSE {l.v[i] : i \in 1..Len(l.v)}

\* two requests that differ at most in the order of the elements of the
\* lists of their filters
SameUpToListOrder(a, b) ==
    /\ [a EXCEPT !.filters = None] = [b EXCEPT !.filters = None]
    /\ (a.filters = None) = (b.filters = None)
    /\ a.filters # None =>
           /\ \A f \in {"game_ids", "category_ids", "tags", "difficulty", "completion_type"} :
                  /\ (a.filters[f] = None) = (b.filters[f] = None)
                  /\ Elements(a.filters[f]) = Elements(b.filters[f])
                  /\ a.filters[f] # None => Len(a.filters[f].v) = Len(b.filters[f].v)
           /\ a.filters.date_range = b.filters.date_range
           /\ a.filters.coordinates_bounds = b.filters.coordinates_bounds

\* C39: two requests whose filters hold the same game ids, category ids,
\* tags, difficulty levels and completion types in a different element
\* order get the same cache key
C39_KeyIndependentOfListOrder ==
    (mode = "keys" /\ inp.kind = "request" /\ out # None /\ SameUpToListOrder(inp.a, inp.b))
        => out.gck[1] = out.gck[2]

====
